---- MODULE Spec2Model ----
(***************************************************************************)
(* State-machine model of the dieah-memory service (MTEnt/Dieah):          *)
(*   - the JSONL append log            (storage/jsonl.rs, message.rs)      *)
(*   - the SQLite metadata store       (storage/sqlite.rs)                 *)
(*   - the LanceDB vector index        (storage/vector.rs)                 *)
(*   - MemoryStore and RetrievalEngine (memory.rs, retrieval.rs)           *)
(*   - the HTTP handlers               (bin/server.rs)                     *)
(*                                                                         *)
(* Strings whose characters matter (agent ids, topic ids: they are joined  *)
(* into file paths and spliced into SQL filter text) are sequences of      *)
(* tokens.  Rust Option<T> values are sequences of length at most one.     *)
(* Every handler is an operator from the state it reads and its request to *)
(* its reply and the state it leaves; the actions apply the writing ones.  *)
(***************************************************************************)
EXTENDS Integers, Sequences, FiniteSets, TLC

VARIABLES
    files,      \* conversations/ tree: path -> file content (sequence of chunks)
    dirs,       \* conversations/ tree: the directories that exist
    outfile,    \* the export file written by export_topic (Option of a JSON array)
    nextMsg,    \* number of Message ids handed out so far (Uuid::new_v4)
    sqlite,     \* memories table of metadata.db: id -> row
    vector,     \* memories table of the vector store: sequence of rows
    nextMem,    \* number of Memory ids handed out so far (Uuid::new_v4)
    appended,   \* history: (agent, topic) -> Messages appended to its log since the log was last deleted
    deleted,    \* history: memory ids whose delete_memory returned success
    holders,    \* the state lock: endpoint -> number of its handlers that hold the lock now
    budget,     \* a ContextBudget (Option: none built yet)
    turn,       \* the last user message looked at for a correction, and what was found (Option)
    upserting,  \* upsert_memory calls past their delete step: the memories still to be added
    handles,    \* JsonlStorage::append calls in progress and returned: id -> message, offset, stage
    gateway,    \* desktop shell, AppState.gateway: Option of the connection its GatewayHandle sends to
    conns,      \* desktop shell: connection -> its gateway_connect call, channel, task and socket
    calls,      \* desktop shell: gateway_request call -> its connection, method, stage and replies
    nextFrame   \* desktop shell: number of request frames written so far (their Uuid::new_v4 ids)

vars == <<files, dirs, outfile, nextMsg, sqlite, vector, nextMem, appended, deleted, holders, budget, turn,
          upserting, handles, gateway, conns, calls, nextFrame>>
logVars == <<files, dirs, outfile, nextMsg, appended>>
memVars == <<sqlite, vector, nextMem, deleted>>
lockVars == <<holders>>
budgetVars == <<budget>>
chatVars == <<turn>>
taskVars == <<upserting, handles>>
gatewayVars == <<gateway, conns, calls, nextFrame>>

----------------------------------------------------------------------------
(* Bounds of the model *)

MaxMsgs == 2        \* Message ids handed out
MaxMem == 2         \* Memory ids handed out
MaxTime == 1        \* clock readings are 0..MaxTime
MaxUses == 1        \* mark_memory_used calls per memory
MaxLogLen == 2      \* records in one log file after an import

----------------------------------------------------------------------------
(* Option<T> *)

None == <<>>
Some(x) == <<x>>
IsSome(o) == Len(o) = 1
Unwrap(o) == o[1]
Option(S) == {None} \cup {Some(x) : x \in S}

(* Utc::now(): a wall-clock reading; it need not advance between calls. *)
Times == 0..MaxTime

----------------------------------------------------------------------------
(* Sequence helpers *)

Range(s) == {s[i] : i \in 1..Len(s)}

IsPrefix(s, t) == Len(s) <= Len(t) /\ SubSeq(t, 1, Len(s)) = s

Concat(s, t) == s \o t

RECURSIVE Flatten(_)
Flatten(ss) == IF ss = <<>> THEN <<>> ELSE Head(ss) \o Flatten(Tail(ss))

MapSeq(s, F(_)) == [i \in 1..Len(s) |-> F(s[i])]

FilterSeq(s, P(_)) == SelectSeq(s, P)

Min2(a, b) == IF a <= b THEN a ELSE b

Max2(a, b) == IF a >= b THEN a ELSE b

SetMax(S) == CHOOSE x \in S : \A y \in S : y <= x

SetMin(S) == CHOOSE x \in S : \A y \in S : x <= y

----------------------------------------------------------------------------
(* message.rs: Role, Message, MessageMetadata, ToolCall and their serde    *)
(* JSON form.  A JSON object field is Absent or Present(value); a          *)
(* serde_json::Value is named by its JSON text ("null", "1").              *)

Absent == <<>>
Present(v) == <<v>>

Roles == {"System", "User", "Assistant", "Tool"}

\* #[serde(rename_all = "lowercase")] and impl Display for Role
RoleName(role) ==
    CASE role = "System" -> "system"
      [] role = "User" -> "user"
      [] role = "Assistant" -> "assistant"
      [] role = "Tool" -> "tool"

RoleFromName(s) ==
    CASE s = "system" -> Some("System")
      [] s = "user" -> Some("User")
      [] s = "assistant" -> Some("Assistant")
      [] s = "tool" -> Some("Tool")
      [] OTHER -> None

\* Message::new: tokens 0, no metadata; the caller supplies the fresh Uuid and the clock reading
MessageNew(id, agent_id, topic_id, role, content, now) ==
    [id |-> id, agent_id |-> agent_id, topic_id |-> topic_id, role |-> role,
     content |-> content, tokens |-> 0, timestamp |-> now, metadata |-> None]

with_tokens(m, tokens) == [m EXCEPT !.tokens = tokens]

with_metadata(m, metadata) == [m EXCEPT !.metadata = Some(metadata)]

\* ToolCall: `output` is Option<Value> with skip_serializing_if = "Option::is_none"
ToolCallToJson(tc) ==
    [id |-> tc.id, name |-> tc.name, input |-> tc.input,
     output |-> IF IsSome(tc.output) THEN Present(Unwrap(tc.output)) ELSE Absent,
     status |-> tc.status]

\* Deserialize for Option<Value>: a missing field and a JSON null both give None
ToolCallFromJson(j) ==
    [id |-> j.id, name |-> j.name, input |-> j.input,
     output |-> IF j.output = Absent \/ Unwrap(j.output) = "null"
                THEN None ELSE Some(Unwrap(j.output)),
     status |-> j.status]

MetadataToJson(md) ==
    [tool_calls |-> IF md.tool_calls = <<>> THEN Absent
                    ELSE Present(MapSeq(md.tool_calls, ToolCallToJson)),
     thinking |-> IF IsSome(md.thinking) THEN Present(Unwrap(md.thinking)) ELSE Absent,
     model |-> IF IsSome(md.model) THEN Present(Unwrap(md.model)) ELSE Absent,
     triggered_memory |-> Present(md.triggered_memory)]

MetadataFromJson(j) ==
    [tool_calls |-> IF j.tool_calls = Absent THEN <<>>
                    ELSE MapSeq(Unwrap(j.tool_calls), ToolCallFromJson),
     thinking |-> IF j.thinking = Absent THEN None ELSE Some(Unwrap(j.thinking)),
     model |-> IF j.model = Absent THEN None ELSE Some(Unwrap(j.model)),
     triggered_memory |-> IF j.triggered_memory = Absent THEN FALSE
                          ELSE Unwrap(j.triggered_memory)]

\* serde_json::to_string(message): Uuid as hyphenated text, DateTime<Utc> as RFC3339 text
MessageToJson(m) ==
    [id |-> [hyphenated |-> m.id],
     agent_id |-> m.agent_id,
     topic_id |-> m.topic_id,
     role |-> RoleName(m.role),
     content |-> m.content,
     tokens |-> m.tokens,
     timestamp |-> [rfc3339 |-> m.timestamp],
     metadata |-> IF IsSome(m.metadata) THEN Present(MetadataToJson(Unwrap(m.metadata)))
                  ELSE Absent]

\* serde_json::from_str::<Message>(line)
MessageFromJson(j) ==
    [id |-> j.id.hyphenated,
     agent_id |-> j.agent_id,
     topic_id |-> j.topic_id,
     role |-> Unwrap(RoleFromName(j.role)),
     content |-> j.content,
     tokens |-> j.tokens,
     timestamp |-> j.timestamp.rfc3339,
     metadata |-> IF j.metadata = Absent THEN None
                  ELSE Some(MetadataFromJson(Unwrap(j.metadata)))]

----------------------------------------------------------------------------
(* storage/jsonl.rs: JsonlStorage.  A file is a sequence of chunks, one    *)
(* per write: the JSON text of a record, or a newline.                     *)

JsonChunk(doc) == [kind |-> "json", doc |-> doc]
NlChunk == [kind |-> "nl"]

WriteFile(f, path, content) ==
    [q \in DOMAIN f \cup {path} |-> IF q = path THEN content ELSE f[q]]

RemoveFile(f, path) == [q \in DOMAIN f \ {path} |-> f[q]]

SlashPositions(p) == {i \in 1..Len(p) : p[i] = "/"}

\* the directory a path lies in
Parent(p) ==
    IF SlashPositions(p) = {} THEN <<>> ELSE SubSeq(p, 1, SetMax(SlashPositions(p)) - 1)

\* std::fs::create_dir_all(dir): dir and every ancestor of it
DirChain(dir) == {SubSeq(dir, 1, i - 1) : i \in SlashPositions(dir)} \cup {dir}

\* base_path.join(agent_id).join(format!("{}.jsonl", topic_id)), relative to base_path
log_path(agent_id, topic_id) == agent_id \o <<"/">> \o topic_id \o <<".jsonl">>

ensure_dir(d, agent_id) == d \cup DirChain(agent_id)

FileContent(f, path) == IF path \in DOMAIN f THEN f[path] ELSE <<>>

\* an append that opens the file with truncate instead of append
append_truncating(f, d, message) ==
    LET d2 == ensure_dir(d, message.agent_id)
        path == log_path(message.agent_id, message.topic_id)
    IN  IF Parent(path) \notin d2
        THEN [ok |-> FALSE, files |-> f, dirs |-> d2, offset |-> 0]
        ELSE [ok |-> TRUE,
              files |-> WriteFile(f, path, <<JsonChunk(MessageToJson(message)), NlChunk>>),
              dirs |-> d2,
              offset |-> 0]

\* append: ensure_dir, open(create, append), offset = seek(End(0)), writeln!(json)
append(f, d, message) ==
    LET d2 == ensure_dir(d, message.agent_id)
        path == log_path(message.agent_id, message.topic_id)
        old == FileContent(f, path)
    IN  IF Parent(path) \notin d2
        THEN [ok |-> FALSE, files |-> f, dirs |-> d2, offset |-> 0]
        ELSE [ok |-> TRUE,
              files |-> WriteFile(f, path, old \o <<JsonChunk(MessageToJson(message)), NlChunk>>),
              dirs |-> d2,
              offset |-> Len(old)]

NlPositions(c) == {i \in 1..Len(c) : c[i].kind = "nl"}

\* BufReader::lines(): split at newlines; a final unterminated line is a line too
RECURSIVE Lines(_)
Lines(c) ==
    IF c = <<>> THEN <<>>
    ELSE LET k == IF NlPositions(c) = {} THEN Len(c) + 1 ELSE SetMin(NlPositions(c))
         IN  <<SubSeq(c, 1, k - 1)>> \o Lines(SubSeq(c, k + 1, Len(c)))

NonEmptyLine(line) == line /= <<>>

\* serde_json::from_str(&line): exactly one JSON document on the line
LineParses(line) == Len(line) = 1

ParseLine(line) == MessageFromJson(line[1].doc)

\* read_all: Ok(vec![]) when the file is missing, Err on a line that does not parse
read_all(f, agent_id, topic_id) ==
    LET path == log_path(agent_id, topic_id)
        ls == FilterSeq(Lines(FileContent(f, path)), NonEmptyLine)
    IN  IF path \notin DOMAIN f THEN [ok |-> TRUE, messages |-> <<>>]
        ELSE IF \E i \in 1..Len(ls) : ~LineParses(ls[i])
        THEN [ok |-> FALSE, messages |-> <<>>]
        ELSE [ok |-> TRUE, messages |-> MapSeq(ls, ParseLine)]

\* a read_last_n that takes the first n records instead of the last n
read_last_n_head(f, agent_id, topic_id, n) ==
    LET all == read_all(f, agent_id, topic_id)
    IN  IF ~all.ok THEN all
        ELSE [ok |-> TRUE, messages |-> SubSeq(all.messages, 1, Min2(n, Len(all.messages)))]

\* read_last_n: all[all.len().saturating_sub(n)..]
read_last_n(f, agent_id, topic_id, n) ==
    LET all == read_all(f, agent_id, topic_id)
        start == Max2(Len(all.messages) - n, 0)
    IN  IF ~all.ok THEN all
        ELSE [ok |-> TRUE, messages |-> SubSeq(all.messages, start + 1, Len(all.messages))]

\* delete_topic: remove_file when the path exists
delete_topic(f, agent_id, topic_id) == RemoveFile(f, log_path(agent_id, topic_id))

\* export_topic: serde_json::to_writer_pretty(&messages), a JSON array
export_topic(f, agent_id, topic_id) ==
    LET all == read_all(f, agent_id, topic_id)
    IN  IF ~all.ok THEN [ok |-> FALSE, out |-> None]
        ELSE [ok |-> TRUE, out |-> Some(MapSeq(all.messages, MessageToJson))]

\* an import loop that appends each record under the ids it carries
RECURSIVE ImportLoop_keeping_ids(_, _, _, _, _)
ImportLoop_keeping_ids(f, d, messages, agent_id, topic_id) ==
    IF messages = <<>> THEN [ok |-> TRUE, files |-> f, dirs |-> d]
    ELSE LET r == append(f, d, Head(messages))
         IN  IF ~r.ok THEN [ok |-> FALSE, files |-> r.files, dirs |-> r.dirs]
             ELSE ImportLoop_keeping_ids(r.files, r.dirs, Tail(messages), agent_id, topic_id)

\* the loop of import_topic: rewrite agent_id and topic_id, append, stop at the first error
RECURSIVE ImportLoop(_, _, _, _, _)
ImportLoop(f, d, messages, agent_id, topic_id) ==
    IF messages = <<>> THEN [ok |-> TRUE, files |-> f, dirs |-> d]
    ELSE LET m == [Head(messages) EXCEPT !.agent_id = agent_id, !.topic_id = topic_id]
             r == append(f, d, m)
         IN  IF ~r.ok THEN [ok |-> FALSE, files |-> r.files, dirs |-> r.dirs]
             ELSE ImportLoop(r.files, r.dirs, Tail(messages), agent_id, topic_id)

\* import_topic: ensure_dir, read Vec<Message> from the input file, append each
import_topic(f, d, agent_id, topic_id, input) ==
    LET d2 == ensure_dir(d, agent_id)
    IN  IF input = None THEN [ok |-> FALSE, files |-> f, dirs |-> d2, count |-> 0]
        ELSE LET messages == MapSeq(Unwrap(input), MessageFromJson)
                 r == ImportLoop(f, d2, messages, agent_id, topic_id)
             IN  [ok |-> r.ok, files |-> r.files, dirs |-> r.dirs, count |-> Len(messages)]

----------------------------------------------------------------------------
(* config.rs: Config::default() *)

embedding_dimensions == 384

max_retrieval_results == 10

\* min_similarity_score 0.7, in percent
min_similarity_score == 70

----------------------------------------------------------------------------
(* memory.rs: MemoryScope, MemoryType, Memory *)

MemoryScopes == {"Global", "Agent", "Topic", "Personal"}

MemoryTypes == {"Correction", "Preference", "Fact", "Workflow", "Constraint"}

\* impl Display for MemoryScope
ScopeName(scope) ==
    CASE scope = "Global" -> "global"
      [] scope = "Agent" -> "agent"
      [] scope = "Topic" -> "topic"
      [] scope = "Personal" -> "personal"

\* a match on a scope string that also takes the capitalised names
ScopeFromName_anycase(s) ==
    CASE s \in {"global", "Global"} -> Some("Global")
      [] s \in {"agent", "Agent"} -> Some("Agent")
      [] s \in {"topic", "Topic"} -> Some("Topic")
      [] s \in {"personal", "Personal"} -> Some("Personal")
      [] OTHER -> None

\* the match on a scope string in create_memory, list_memories and MemoryRow::into_memory
ScopeFromName(s) ==
    CASE s = "global" -> Some("Global")
      [] s = "agent" -> Some("Agent")
      [] s = "topic" -> Some("Topic")
      [] s = "personal" -> Some("Personal")
      [] OTHER -> None

\* impl Display for MemoryType
TypeName(memory_type) ==
    CASE memory_type = "Correction" -> "correction"
      [] memory_type = "Preference" -> "preference"
      [] memory_type = "Fact" -> "fact"
      [] memory_type = "Workflow" -> "workflow"
      [] memory_type = "Constraint" -> "constraint"

\* the match on a memory_type string in create_memory and MemoryRow::into_memory
TypeFromName(s) ==
    CASE s = "correction" -> Some("Correction")
      [] s = "preference" -> Some("Preference")
      [] s = "fact" -> Some("Fact")
      [] s = "workflow" -> Some("Workflow")
      [] s = "constraint" -> Some("Constraint")
      [] OTHER -> None

\* the fields every constructor sets the same way
MemoryBase(id, scope, memory_type, agent_id, topic_id, content, now) ==
    [id |-> id, scope |-> scope, memory_type |-> memory_type,
     agent_id |-> agent_id, topic_id |-> topic_id, content |-> content,
     context |-> None, tags |-> <<>>, embedding |-> None, created_at |-> now,
     last_used_at |-> None, retrieval_count |-> 0, active |-> TRUE]

\* Memory::global
MemoryGlobal(id, memory_type, content, now) ==
    MemoryBase(id, "Global", memory_type, None, None, content, now)

\* Memory::for_agent
MemoryForAgent(id, agent_id, memory_type, content, now) ==
    MemoryBase(id, "Agent", memory_type, Some(agent_id), None, content, now)

\* Memory::for_topic
MemoryForTopic(id, agent_id, topic_id, memory_type, content, now) ==
    MemoryBase(id, "Topic", memory_type, Some(agent_id), Some(topic_id), content, now)

with_context(m, context) == [m EXCEPT !.context = Some(context)]

with_tags(m, tags) == [m EXCEPT !.tags = tags]

with_embedding(m, embedding) == [m EXCEPT !.embedding = Some(embedding)]

----------------------------------------------------------------------------
(* storage/sqlite.rs: the memories table, keyed by id (ON CONFLICT(id)) *)

\* the params! of save_memory: labels, JSON text for tags, RFC3339 text for times
MemoryToRow(m) ==
    [scope |-> ScopeName(m.scope),
     memory_type |-> TypeName(m.memory_type),
     agent_id |-> m.agent_id,
     topic_id |-> m.topic_id,
     content |-> m.content,
     context |-> m.context,
     tags |-> [json |-> m.tags],
     created_at |-> [rfc3339 |-> m.created_at],
     last_used_at |-> IF IsSome(m.last_used_at)
                      THEN Some([rfc3339 |-> Unwrap(m.last_used_at)]) ELSE None,
     retrieval_count |-> m.retrieval_count,
     active |-> m.active]

\* an INSERT OR REPLACE: the whole row is replaced on conflict
sqlite_save_memory_replace(db, m) ==
    [i \in DOMAIN db \cup {m.id} |-> IF i = m.id THEN MemoryToRow(m) ELSE db[i]]

\* INSERT ... ON CONFLICT(id) DO UPDATE SET content, context, tags, last_used_at,
\* retrieval_count, active
sqlite_save_memory(db, m) ==
    LET new == MemoryToRow(m)
    IN  IF m.id \in DOMAIN db
        THEN [db EXCEPT ![m.id] =
                 [@ EXCEPT !.content = new.content, !.context = new.context,
                           !.tags = new.tags, !.last_used_at = new.last_used_at,
                           !.retrieval_count = new.retrieval_count,
                           !.active = new.active]]
        ELSE [i \in DOMAIN db \cup {m.id} |-> IF i = m.id THEN new ELSE db[i]]

\* chrono::DateTime::parse_from_rfc3339 on a stored text
ParsesAsRfc3339(text) == "rfc3339" \in DOMAIN text

\* MemoryRow::into_memory: embedding None; a last_used_at that does not parse reads as None
into_memory(id, row) ==
    [id |-> id,
     scope |-> Unwrap(ScopeFromName(row.scope)),
     memory_type |-> Unwrap(TypeFromName(row.memory_type)),
     agent_id |-> row.agent_id,
     topic_id |-> row.topic_id,
     content |-> row.content,
     context |-> row.context,
     tags |-> row.tags.json,
     embedding |-> None,
     created_at |-> row.created_at.rfc3339,
     last_used_at |-> IF IsSome(row.last_used_at) /\ ParsesAsRfc3339(Unwrap(row.last_used_at))
                      THEN Some(Unwrap(row.last_used_at).rfc3339) ELSE None,
     retrieval_count |-> row.retrieval_count,
     active |-> row.active]

\* SqliteStorage::get_memory: Option<Memory>
sqlite_get_memory(db, id) ==
    IF id \in DOMAIN db THEN Some(into_memory(id, db[id])) ELSE None

\* a WHERE clause without AND active = 1
ListMatches_any_activity(row, scope, agent_id, topic_id, active_only) ==
    /\ IsSome(scope) => row.scope = ScopeName(Unwrap(scope))
    /\ IsSome(agent_id) => row.agent_id = agent_id
    /\ IsSome(topic_id) => row.topic_id = topic_id

\* the WHERE clause of list_memories (bound parameters; NULL matches no value)
ListMatches(row, scope, agent_id, topic_id, active_only) ==
    /\ IsSome(scope) => row.scope = ScopeName(Unwrap(scope))
    /\ IsSome(agent_id) => row.agent_id = agent_id
    /\ IsSome(topic_id) => row.topic_id = topic_id
    /\ active_only => row.active

\* ids in ORDER BY created_at DESC order; rows of equal created_at in insertion order
RECURSIVE OrderByCreatedDesc(_, _)
OrderByCreatedDesc(db, ids) ==
    IF ids = {} THEN <<>>
    ELSE LET first == CHOOSE i \in ids : \A j \in ids :
                          \/ db[i].created_at.rfc3339 > db[j].created_at.rfc3339
                          \/ db[i].created_at.rfc3339 = db[j].created_at.rfc3339 /\ i <= j
         IN  <<first>> \o OrderByCreatedDesc(db, ids \ {first})

\* SqliteStorage::list_memories
sqlite_list_memories(db, scope, agent_id, topic_id, active_only) ==
    LET ids == {i \in DOMAIN db : ListMatches(db[i], scope, agent_id, topic_id, active_only)}
        ordered == OrderByCreatedDesc(db, ids)
    IN  [k \in 1..Len(ordered) |-> into_memory(ordered[k], db[ordered[k]])]

\* DELETE FROM memories WHERE id = ?1
sqlite_delete_memory(db, id) == [i \in DOMAIN db \ {id} |-> db[i]]

\* an UPDATE that also resets the usage columns
set_memory_active_resetting(db, id, active) ==
    IF id \in DOMAIN db
    THEN [db EXCEPT ![id].active = active, ![id].last_used_at = None,
                    ![id].retrieval_count = 0]
    ELSE db

\* UPDATE memories SET active = ?1 WHERE id = ?2
set_memory_active(db, id, active) ==
    IF id \in DOMAIN db THEN [db EXCEPT ![id].active = active] ELSE db

\* UPDATE memories SET last_used_at = datetime('now'), retrieval_count = retrieval_count + 1
\* WHERE id = ?1; datetime('now') is SQLite's "YYYY-MM-DD HH:MM:SS" text
mark_memory_used(db, id, now) ==
    IF id \in DOMAIN db
    THEN [db EXCEPT ![id].last_used_at = Some([sqlite_datetime |-> now]),
                    ![id].retrieval_count = @ + 1]
    ELSE db

----------------------------------------------------------------------------
(* embedding.rs: EmbeddingService::embed and TokenCounter::count, the two  *)
(* external models, as fixed tables over the texts of the model.  A vector *)
(* is its length and its two leading coordinates, in tenths; the other     *)
(* coordinates are zero.                                                   *)

Vec(x, y) == [len |-> embedding_dimensions, lead |-> <<x, y>>]

embed(text) ==
    CASE text = "kebab" -> Vec(10, 0)
      [] text = "case" -> Vec(10, 5)
      [] text = "snake" -> Vec(0, 10)
      [] OTHER -> Vec(0, 0)

\* TokenCounter::count
count(text) ==
    CASE text = "hello" -> 1
      [] text = "hello world" -> 2
      [] OTHER -> 3

\* str::len: bytes of a text
ByteLen(text) ==
    CASE text = "kebab" -> 5
      [] text = "snake" -> 5
      [] text = "case" -> 4
      [] text = "hello" -> 5
      [] text = "hello world" -> 11
      [] OTHER -> 0

----------------------------------------------------------------------------
(* storage/vector.rs: VectorStorage over the LanceDB table "memories" *)

\* the one-row RecordBatch upsert_memory builds
MemoryToVectorRow(m) ==
    [id |-> m.id, content |-> m.content, scope |-> ScopeName(m.scope),
     memory_type |-> TypeName(m.memory_type), agent_id |-> m.agent_id,
     topic_id |-> m.topic_id, vector |-> Unwrap(m.embedding)]

HasId(row, id) == row.id = id

\* table.delete("id = '<uuid>'"); deleted_ok = FALSE is a failure of the engine
vector_delete_memory(v, id, deleted_ok) ==
    IF ~deleted_ok THEN [ok |-> FALSE, vector |-> v]
    ELSE [ok |-> TRUE, vector |-> SelectSeq(v, LAMBDA row : ~HasId(row, id))]

\* an upsert_memory that deletes the existing row before it looks at the embedding
vector_upsert_memory_delete_first(v, m, deleted_ok, added_ok) ==
    LET v2 == vector_delete_memory(v, m.id, deleted_ok).vector
    IN  IF m.embedding = None THEN [ok |-> FALSE, error |-> Some("vector_db"), vector |-> v2]
        ELSE IF Unwrap(m.embedding).len /= embedding_dimensions
        THEN [ok |-> FALSE, error |-> Some("vector_db"), vector |-> v2]
        ELSE IF ~added_ok THEN [ok |-> FALSE, error |-> Some("vector_db"), vector |-> v2]
        ELSE [ok |-> TRUE, error |-> None, vector |-> Append(v2, MemoryToVectorRow(m))]

\* upsert_memory: embedding present and of the configured length, then
\* `let _ = delete_memory(id)` (its error ignored), then table.add
vector_upsert_memory(v, m, deleted_ok, added_ok) ==
    IF m.embedding = None THEN [ok |-> FALSE, error |-> Some("vector_db"), vector |-> v]
    ELSE IF Unwrap(m.embedding).len /= embedding_dimensions
    THEN [ok |-> FALSE, error |-> Some("vector_db"), vector |-> v]
    ELSE LET v2 == vector_delete_memory(v, m.id, deleted_ok).vector
         IN  IF ~added_ok THEN [ok |-> FALSE, error |-> Some("vector_db"), vector |-> v2]
             ELSE [ok |-> TRUE, error |-> None, vector |-> Append(v2, MemoryToVectorRow(m))]

\* format!("scope = '{}'", scope) and format!("agent_id = '{}'", agent_id), joined by " AND "
FilterText(scope_filter, agent_filter) ==
    LET a == IF IsSome(scope_filter)
             THEN <<<<"scope", "=", "'">> \o Unwrap(scope_filter) \o <<"'">>>> ELSE <<>>
        b == IF IsSome(agent_filter)
             THEN <<<<"agent_id", "=", "'">> \o Unwrap(agent_filter) \o <<"'">>>> ELSE <<>>
        parts == a \o b
    IN  IF Len(parts) = 2 THEN parts[1] \o <<"AND">> \o parts[2]
        ELSE IF Len(parts) = 1 THEN parts[1]
        ELSE <<>>

(* Query::only_if(text): the engine reads the text as an SQL predicate.     *)
(* '...' is a string literal, OR binds weaker than AND, a comparison with   *)
(* a NULL column is not true.                                               *)

\* positions of keyword kw that lie outside every string literal
TopLevel(text, kw) ==
    {i \in 1..Len(text) :
        /\ text[i] = kw
        /\ Cardinality({j \in 1..(i - 1) : text[j] = "'"}) % 2 = 0}

RECURSIVE SplitAtPos(_, _, _)
SplitAtPos(text, positions, from) ==
    LET rest == {k \in positions : k >= from}
    IN  IF rest = {} THEN <<SubSeq(text, from, Len(text))>>
        ELSE <<SubSeq(text, from, SetMin(rest) - 1)>>
                 \o SplitAtPos(text, positions, SetMin(rest) + 1)

SplitTop(text, kw) == SplitAtPos(text, TopLevel(text, kw), 1)

FilterColumns == {"scope", "memory_type", "agent_id", "topic_id", "content"}

\* column = 'literal'
IsComparison(c) ==
    /\ Len(c) >= 4
    /\ c[1] \in FilterColumns
    /\ c[2] = "="
    /\ c[3] = "'"
    /\ c[Len(c)] = "'"
    /\ \A i \in 4..(Len(c) - 1) : c[i] /= "'"

\* the column's value as text; None is NULL
ColumnValue(row, column) ==
    CASE column = "scope" -> Some(<<row.scope>>)
      [] column = "memory_type" -> Some(<<row.memory_type>>)
      [] column = "content" -> Some(<<row.content>>)
      [] column = "agent_id" -> row.agent_id
      [] column = "topic_id" -> row.topic_id

ComparisonHolds(row, c) == ColumnValue(row, c[1]) = Some(SubSeq(c, 4, Len(c) - 1))

FilterParses(text) ==
    \/ text = <<>>
    \/ \A d \in Range(SplitTop(text, "OR")) : \A c \in Range(SplitTop(d, "AND")) : IsComparison(c)

FilterHolds(row, text) ==
    \/ text = <<>>
    \/ \E d \in Range(SplitTop(text, "OR")) :
          \A c \in Range(SplitTop(d, "AND")) : ComparisonHolds(row, c)

\* the engine's _distance between the query and a row's vector, in hundredths
Distance(query, vec) ==
    (query.lead[1] - vec.lead[1]) * (query.lead[1] - vec.lead[1])
        + (query.lead[2] - vec.lead[2]) * (query.lead[2] - vec.lead[2])

\* score = 1.0 / (1.0 + distance), as a fraction
Score(distance) == [num |-> 100, den |-> 100 + distance]

ScoreGE(a, b) == a.num * b.den >= b.num * a.den

\* score >= min_score, min_score in percent
AtLeastMinScore(score, min_score) == score.num * 100 >= min_score * score.den

\* the positions of the rows that pass the filter, nearest first (rows at the same
\* distance in table order)
RECURSIVE NearestFirst(_, _, _)
NearestFirst(v, query, positions) ==
    IF positions = {} THEN <<>>
    ELSE LET first == CHOOSE i \in positions : \A j \in positions :
                          \/ Distance(query, v[i].vector) < Distance(query, v[j].vector)
                          \/ /\ Distance(query, v[i].vector) = Distance(query, v[j].vector)
                             /\ i <= j
         IN  <<first>> \o NearestFirst(v, query, positions \ {first})

SearchResult(row, query) ==
    [id |-> row.id, content |-> row.content, scope |-> row.scope,
     memory_type |-> row.memory_type, score |-> Score(Distance(query, row.vector))]

PassesMinScore(result, min_score) == AtLeastMinScore(result.score, min_score)

\* VectorStorage::search: vector_search(query).limit(limit).only_if(filter), then
\* keep the rows whose score is at least min_score
search(v, query_embedding, limit, min_score, scope_filter, agent_filter) ==
    LET text == FilterText(scope_filter, agent_filter)
        passing == {i \in 1..Len(v) : FilterHolds(v[i], text)}
        nearest == NearestFirst(v, query_embedding, passing)
        top == SubSeq(nearest, 1, Min2(limit, Len(nearest)))
        hits == [k \in 1..Len(top) |-> SearchResult(v[top[k]], query_embedding)]
    IN  IF ~FilterParses(text) THEN [ok |-> FALSE, results |-> <<>>]
        ELSE [ok |-> TRUE,
              results |-> SelectSeq(hits, LAMBDA r : PassesMinScore(r, min_score))]

----------------------------------------------------------------------------
(* memory.rs: MemoryStore *)

\* a save_memory that never reaches the vector store
save_memory_sqlite_only(db, v, m, deleted_ok, added_ok) ==
    [ok |-> TRUE, sqlite |-> sqlite_save_memory(db, m), vector |-> v]

\* MemoryStore::save_memory: sqlite first, then the vector store when there is an embedding
save_memory(db, v, m, deleted_ok, added_ok) ==
    LET db2 == sqlite_save_memory(db, m)
        up == vector_upsert_memory(v, m, deleted_ok, added_ok)
    IN  IF m.embedding = None THEN [ok |-> TRUE, sqlite |-> db2, vector |-> v]
        ELSE [ok |-> up.ok, sqlite |-> db2, vector |-> up.vector]

\* MemoryStore::get_memory
get_memory(db, id) == sqlite_get_memory(db, id)

\* MemoryStore::list_memories
list_memories(db, scope, agent_id, topic_id, active_only) ==
    sqlite_list_memories(db, scope, agent_id, topic_id, active_only)

\* a delete_memory that leaves the vector store alone
delete_memory_sqlite_only(db, v, id, deleted_ok) ==
    [ok |-> TRUE, sqlite |-> sqlite_delete_memory(db, id), vector |-> v]

\* MemoryStore::delete_memory: sqlite first, then the vector store
delete_memory(db, v, id, deleted_ok) ==
    LET db2 == sqlite_delete_memory(db, id)
        del == vector_delete_memory(v, id, deleted_ok)
    IN  [ok |-> del.ok, sqlite |-> db2, vector |-> del.vector]

\* MemoryStore::deactivate_memory
deactivate_memory(db, id) == set_memory_active(db, id, FALSE)

\* MemoryStore::reactivate_memory
reactivate_memory(db, id) == set_memory_active(db, id, TRUE)

----------------------------------------------------------------------------
(* retrieval.rs: RetrievalEngine *)

\* a retrieve that leaves the merged hits in search order
SortByScoreDesc_unsorted(ms) == ms

\* memories.sort_by(|a, b| b.score.partial_cmp(&a.score)): a stable sort, best score first
RECURSIVE SortByScoreDesc(_)
SortByScoreDesc(ms) ==
    IF ms = <<>> THEN <<>>
    ELSE LET best == SetMin({i \in 1..Len(ms) : \A j \in 1..Len(ms) : ScoreGE(ms[i].score, ms[j].score)})
         IN  <<ms[best]>> \o SortByScoreDesc(SubSeq(ms, 1, best - 1) \o SubSeq(ms, best + 1, Len(ms)))

RECURSIVE SumSeq(_)
SumSeq(ns) == IF ns = <<>> THEN 0 ELSE Head(ns) + SumSeq(Tail(ns))

\* RetrievalEngine::retrieve
retrieve(db, v, f, query, agent_id, topic_id, max_recent_messages) ==
    LET query_embedding == embed(query)
        global_results == search(v, query_embedding, max_retrieval_results \div 2,
                                 min_similarity_score, Some(<<"global">>), None)
        agent_results == IF IsSome(agent_id)
                         THEN search(v, query_embedding, max_retrieval_results \div 2,
                                     min_similarity_score, Some(<<"agent">>), agent_id)
                         ELSE [ok |-> TRUE, results |-> <<>>]
        sorted == SortByScoreDesc(global_results.results \o agent_results.results)
        memories == SubSeq(sorted, 1, Min2(max_retrieval_results, Len(sorted)))
        recent == IF IsSome(agent_id) /\ IsSome(topic_id)
                  THEN read_last_n(f, Unwrap(agent_id), Unwrap(topic_id), max_recent_messages)
                  ELSE [ok |-> TRUE, messages |-> <<>>]
        memory_tokens == SumSeq([k \in 1..Len(memories) |-> ByteLen(memories[k].content) \div 4])
        message_tokens == SumSeq([k \in 1..Len(recent.messages) |-> recent.messages[k].tokens])
    IN  IF ~global_results.ok \/ ~agent_results.ok \/ ~recent.ok
        THEN [ok |-> FALSE, memories |-> <<>>, recent_messages |-> <<>>, total_tokens |-> 0]
        ELSE [ok |-> TRUE, memories |-> memories, recent_messages |-> recent.messages,
              total_tokens |-> memory_tokens + message_tokens]

\* RetrievalEngine::embed_and_save; embedded_ok = FALSE is a failure of the embedding model
embed_and_save(db, v, m, embedded_ok, deleted_ok, added_ok) ==
    IF ~embedded_ok THEN [ok |-> FALSE, sqlite |-> db, vector |-> v, memory |-> m]
    ELSE LET m2 == with_embedding(m, embed(m.content))
             r == save_memory(db, v, m2, deleted_ok, added_ok)
         IN  [ok |-> r.ok, sqlite |-> r.sqlite, vector |-> r.vector, memory |-> m2]

----------------------------------------------------------------------------
(* bin/server.rs: the HTTP handlers.  Each is an operator from the state   *)
(* it reads and its request to its reply and the state it leaves.          *)

\* Uuid::parse_str on a path segment
ParseUuid(text) == IF "hyphenated" \in DOMAIN text THEN Some(text.hyphenated) ELSE None

\* impl From<Memory> for MemoryResponse
MemoryResponse(m) ==
    [id |-> [hyphenated |-> m.id],
     scope |-> ScopeName(m.scope),
     memory_type |-> TypeName(m.memory_type),
     agent_id |-> m.agent_id,
     topic_id |-> m.topic_id,
     content |-> m.content,
     context |-> m.context,
     tags |-> m.tags,
     created_at |-> [rfc3339 |-> m.created_at],
     last_used_at |-> IF IsSome(m.last_used_at)
                      THEN Some([rfc3339 |-> Unwrap(m.last_used_at)]) ELSE None,
     retrieval_count |-> m.retrieval_count,
     active |-> m.active]

\* impl From<&Message> for MessageResponse
MessageResponse(m) ==
    [id |-> [hyphenated |-> m.id],
     agent_id |-> m.agent_id,
     topic_id |-> m.topic_id,
     role |-> RoleName(m.role),
     content |-> m.content,
     tokens |-> m.tokens,
     timestamp |-> [rfc3339 |-> m.timestamp]]

\* a match on scope that hands the request's ids to every constructor
BuildMemory_keeping_ids(id, scope, memory_type, req, now) ==
    MemoryBase(id, IF scope = "Personal" THEN "Global" ELSE scope, memory_type,
               req.agent_id, req.topic_id, req.content, now)

\* the match on scope in create_memory that builds the Memory
BuildMemory(id, scope, memory_type, req, now) ==
    CASE scope = "Global" -> MemoryGlobal(id, memory_type, req.content, now)
      [] scope = "Agent" -> MemoryForAgent(id, Unwrap(req.agent_id), memory_type, req.content, now)
      [] scope = "Topic" -> MemoryForTopic(id, Unwrap(req.agent_id), Unwrap(req.topic_id),
                                           memory_type, req.content, now)
      [] scope = "Personal" -> MemoryGlobal(id, memory_type, req.content, now)

\* POST /memories.  id is the Uuid the constructor draws; `built` says whether it was drawn
create_memory(db, v, id, req, now, embedded_ok, deleted_ok, added_ok) ==
    LET scope == ScopeFromName(req.scope)
        memory_type == TypeFromName(req.memory_type)
        bad == [status |-> 400, sqlite |-> db, vector |-> v, built |-> FALSE, body |-> None]
    IN  IF scope = None THEN bad
        ELSE IF memory_type = None THEN bad
        ELSE IF Unwrap(scope) = "Agent" /\ req.agent_id = None THEN bad
        ELSE IF Unwrap(scope) = "Topic" /\ (req.agent_id = None \/ req.topic_id = None) THEN bad
        ELSE LET m0 == BuildMemory(id, Unwrap(scope), Unwrap(memory_type), req, now)
                 m1 == IF IsSome(req.context) THEN with_context(m0, Unwrap(req.context)) ELSE m0
                 m2 == IF IsSome(req.tags) THEN with_tags(m1, Unwrap(req.tags)) ELSE m1
                 r == embed_and_save(db, v, m2, embedded_ok, deleted_ok, added_ok)
             IN  IF ~r.ok
                 THEN [status |-> 500, sqlite |-> r.sqlite, vector |-> r.vector,
                       built |-> TRUE, body |-> None]
                 ELSE [status |-> 200, sqlite |-> r.sqlite, vector |-> r.vector,
                       built |-> TRUE, body |-> Some(MemoryResponse(r.memory))]

\* GET /memories/:id
http_get_memory(db, id_text) ==
    LET uuid == ParseUuid(id_text)
    IN  IF uuid = None THEN [status |-> 400, body |-> None]
        ELSE IF get_memory(db, Unwrap(uuid)) = None THEN [status |-> 404, body |-> None]
        ELSE [status |-> 200, body |-> Some(MemoryResponse(Unwrap(get_memory(db, Unwrap(uuid)))))]

\* GET /memories: an unknown scope string reads as no scope filter; active_only defaults to true
http_list_memories(db, scope_text, agent_id, topic_id, active_only) ==
    LET scope == IF IsSome(scope_text) THEN ScopeFromName(Unwrap(scope_text)) ELSE None
        found == list_memories(db, scope, agent_id, topic_id,
                               IF IsSome(active_only) THEN Unwrap(active_only) ELSE TRUE)
    IN  [status |-> 200, body |-> MapSeq(found, MemoryResponse)]

\* a DELETE /memories/:id that answers 404 when there is no such memory
http_delete_memory_strict(db, v, id_text, deleted_ok) ==
    LET uuid == ParseUuid(id_text)
        r == delete_memory(db, v, Unwrap(uuid), deleted_ok)
    IN  IF uuid = None THEN [status |-> 400, sqlite |-> db, vector |-> v]
        ELSE IF get_memory(db, Unwrap(uuid)) = None
        THEN [status |-> 404, sqlite |-> db, vector |-> v]
        ELSE IF ~r.ok THEN [status |-> 500, sqlite |-> r.sqlite, vector |-> r.vector]
        ELSE [status |-> 204, sqlite |-> r.sqlite, vector |-> r.vector]

\* DELETE /memories/:id
http_delete_memory(db, v, id_text, deleted_ok) ==
    LET uuid == ParseUuid(id_text)
        r == delete_memory(db, v, Unwrap(uuid), deleted_ok)
    IN  IF uuid = None THEN [status |-> 400, sqlite |-> db, vector |-> v]
        ELSE IF ~r.ok THEN [status |-> 500, sqlite |-> r.sqlite, vector |-> r.vector]
        ELSE [status |-> 204, sqlite |-> r.sqlite, vector |-> r.vector]

\* the RetrievedMemoryResponse of retrieve_context
RetrievedMemoryResponse(m) ==
    [id |-> [hyphenated |-> m.id], content |-> m.content, scope |-> m.scope,
     memory_type |-> m.memory_type, score |-> m.score]

\* POST /retrieve; max_recent_messages defaults to 10
retrieve_context(db, v, f, req) ==
    LET context == retrieve(db, v, f, req.query, req.agent_id, req.topic_id,
                            IF IsSome(req.max_recent_messages)
                            THEN Unwrap(req.max_recent_messages) ELSE 10)
    IN  IF ~context.ok THEN [status |-> 500, memories |-> <<>>, recent_messages |-> <<>>,
                             total_tokens |-> 0]
        ELSE [status |-> 200,
              memories |-> MapSeq(context.memories, RetrievedMemoryResponse),
              recent_messages |-> MapSeq(context.recent_messages, MessageResponse),
              total_tokens |-> context.total_tokens]

\* an append_message that stores the message without its token count
append_message_uncounted(f, d, id, req, now) ==
    LET role == RoleFromName(req.role)
        message == MessageNew(id, req.agent_id, req.topic_id, Unwrap(role), req.content, now)
        r == append(f, d, message)
    IN  IF role = None
        THEN [status |-> 400, files |-> f, dirs |-> d, built |-> FALSE, body |-> None]
        ELSE IF ~r.ok
        THEN [status |-> 500, files |-> r.files, dirs |-> r.dirs, built |-> TRUE, body |-> None]
        ELSE [status |-> 200, files |-> r.files, dirs |-> r.dirs, built |-> TRUE,
              body |-> Some(MessageResponse(message))]

\* POST /messages.  id is the Uuid Message::new draws; `built` says whether it was drawn
append_message(f, d, id, req, now) ==
    LET role == RoleFromName(req.role)
        message == with_tokens(MessageNew(id, req.agent_id, req.topic_id, Unwrap(role),
                                          req.content, now),
                               count(req.content))
        r == append(f, d, message)
    IN  IF role = None
        THEN [status |-> 400, files |-> f, dirs |-> d, built |-> FALSE, body |-> None]
        ELSE IF ~r.ok
        THEN [status |-> 500, files |-> r.files, dirs |-> r.dirs, built |-> TRUE, body |-> None]
        ELSE [status |-> 200, files |-> r.files, dirs |-> r.dirs, built |-> TRUE,
              body |-> Some(MessageResponse(message))]

\* GET /messages/:agent_id/:topic_id?limit=
get_messages(f, agent_id, topic_id, limit) ==
    LET r == IF IsSome(limit) THEN read_last_n(f, agent_id, topic_id, Unwrap(limit))
             ELSE read_all(f, agent_id, topic_id)
    IN  IF ~r.ok THEN [status |-> 500, body |-> <<>>]
        ELSE [status |-> 200, body |-> MapSeq(r.messages, MessageResponse)]

----------------------------------------------------------------------------
(* The requests the model issues *)

\* agent and topic ids of the conversation log; "/" is the path separator
MsgAgents == {<<"a1">>, <<"a1", "/", "x">>}
MsgTopics == {<<"t1">>, <<"x", "/", "t1">>}
Pairs == MsgAgents \X MsgTopics

ToolCallInput(output) ==
    [id |-> "call-1", name |-> "grep", input |-> "1", output |-> output, status |-> "success"]

\* Option<MessageMetadata> values a caller of JsonlStorage::append passes
MetadataInputs ==
    { None,
      Some([tool_calls |-> <<ToolCallInput(Some("1")), ToolCallInput(Some("null"))>>,
            thinking |-> Some("hm"), model |-> None, triggered_memory |-> TRUE]) }

\* clock readings taken while a message is built
MsgTimes == {MaxTime}

\* bodies of POST /messages
MessageRequests ==
    [agent_id : MsgAgents, topic_id : MsgTopics, role : {"user", "User"}, content : {"hello"}]

\* agent and topic ids of memories
MemAgents == {<<"a1">>, <<"a2">>}
MemTopics == {<<"t1">>}

\* an agent id that holds a quote
QuotedAgent == <<"a2", "'", "OR", "scope", "=", "'", "topic">>

\* bodies of POST /memories
CreateRequests ==
    [scope : {"global", "agent", "topic", "personal", "Global"},
     memory_type : {"correction", "note"},
     agent_id : Option(MemAgents),
     topic_id : Option(MemTopics),
     content : {"kebab"},
     context : {None},
     tags : {None}]

\* bodies of POST /retrieve
RetrieveRequests ==
    [query : {"kebab", "snake"},
     agent_id : Option(MemAgents \cup {QuotedAgent}),
     topic_id : {None},
     max_recent_messages : {None}]

MemIds == 1..(MaxMem + 1)

\* the :id path segments of GET and DELETE /memories/:id
IdTexts == {[hyphenated |-> i] : i \in MemIds} \cup {[text |-> "zzz"]}

\* outcomes of the external calls of one request: embedding, vector delete, vector add
Outcomes ==
    { <<TRUE, TRUE, TRUE>>, <<FALSE, TRUE, TRUE>>, <<TRUE, FALSE, TRUE>>, <<TRUE, TRUE, FALSE>> }

----------------------------------------------------------------------------
(* Initial state: empty data directory *)

(* server.rs: the lock on the shared state, Arc<RwLock<AppState>> *)

\* the handlers of the router that lock the state
Endpoints ==
    {"list_memories", "create_memory", "get_memory", "delete_memory", "retrieve_context",
     "append_message", "get_messages", "count_tokens", "get_token_budget", "list_agents",
     "list_topics"}

\* the side a handler takes: state.write().await or state.read().await
LockSide(endpoint) == IF endpoint = "create_memory" THEN "write" ELSE "read"

(* dieah-main/src-tauri/src/chat.rs, state.rs: the gateway connection of   *)
(* the desktop shell.  A oneshot sender is named by its receiver: ReadyTx  *)
(* for the ready_tx of gateway_connect, k >= 1 for the respond_to of the   *)
(* k-th gateway_request call; a send is a record of receiver and result.   *)

MaxConns == 2
MaxCalls == 1

Ok(value) == [ok |-> TRUE, value |-> value]
Err(message) == [ok |-> FALSE, value |-> message]

ReadyTx == 0

\* a connection that gateway_connect has not made yet
NoTask ==
    [phase |-> "none", rx |-> <<>>, pending |-> <<>>, connect_sent |-> FALSE,
     connect_request_id |-> None, ready_tx |-> FALSE, peer |-> "none", inbox |-> <<>>,
     written |-> {}, answered |-> {}, challenged |-> FALSE, returned |-> <<>>]

\* gateway_connect up to the spawn: the channel, the oneshot, the task not yet connected
NewTask == [NoTask EXCEPT !.phase = "spawned", !.ready_tx = TRUE]

\* a gateway_request call that has not been made yet
NoCall == [conn |-> 0, method |-> "", stage |-> "idle", accepted |-> FALSE, replies |-> <<>>]

\* frames and stream items the task reads from the socket
ResFrame(id, ok, error) ==
    [type |-> "res", event |-> "", id |-> id, ok |-> ok, payload |-> ToString(id), error |-> error]
EventFrame(event) ==
    [type |-> "event", event |-> event, id |-> 0, ok |-> FALSE, payload |-> "", error |-> None]
CloseFrame == [EventFrame("") EXCEPT !.type = "close"]
ReadError == [EventFrame("") EXCEPT !.type = "error"]

\* commands of the mpsc channel
RequestCommand(method, respond_to) ==
    [kind |-> "Request", method |-> method, respond_to |-> respond_to]
DisconnectCommand == [kind |-> "Disconnect", method |-> "", respond_to |-> 0]

\* HashMap::insert and HashMap::remove on pending
Insert(pending, id, sender) ==
    [i \in DOMAIN pending \cup {id} |-> IF i = id THEN sender ELSE pending[i]]
Remove(pending, id) == [i \in DOMAIN pending \ {id} |-> pending[i]]

RECURSIVE Ascending(_)
Ascending(S) == IF S = {} THEN <<>> ELSE <<SetMin(S)>> \o Ascending(S \ {SetMin(S)})

\* the outcome of one step of the task: its state, the oneshot sends it made, whether it
\* wrote a request frame, whether it left the loop
Step(t, sends, wrote, break) == [task |-> t, sends |-> sends, wrote |-> wrote, break |-> break]

\* send_request_with_ready; id is the Uuid it draws; a write fails when the socket is broken
send_request_with_ready(t, id, method, respond_to) ==
    IF t.peer = "broken"
    THEN [task |-> t, id |-> None,
          sends |-> IF IsSome(respond_to)
                    THEN <<[to |-> Unwrap(respond_to), result |-> Err("send failed")]>>
                    ELSE <<>>]
    ELSE [task |-> [t EXCEPT !.written = @ \cup {[id |-> id, method |-> method,
                                                  respond_to |-> respond_to]},
                             !.pending = IF IsSome(respond_to)
                                         THEN Insert(@, id, Unwrap(respond_to)) ELSE @],
          id |-> Some(id),
          sends |-> <<>>]

send_connect(t, id, ready_tx) == send_request_with_ready(t, id, "connect", ready_tx)

send_request(t, id, method, respond_to) ==
    send_request_with_ready(t, id, method, Some(respond_to))

\* a handshake send that does not record that the request is out
connect_now_unmarked(t, id) ==
    LET s == send_connect([t EXCEPT !.ready_tx = FALSE], id,
                          IF t.ready_tx THEN Some(ReadyTx) ELSE None)
    IN  Step(s.task, s.sends, IsSome(s.id), FALSE)

\* `if let Some(id) = send_connect(.., ready_tx.take()).await { connect_sent = true; .. }`,
\* the body of the timer branch and of the connect.challenge branch
connect_now(t, id) ==
    LET s == send_connect([t EXCEPT !.ready_tx = FALSE], id,
                          IF t.ready_tx THEN Some(ReadyTx) ELSE None)
    IN  IF IsSome(s.id)
        THEN Step([s.task EXCEPT !.connect_sent = TRUE, !.connect_request_id = s.id],
                  s.sends, TRUE, FALSE)
        ELSE Step(s.task, s.sends, FALSE, FALSE)

\* the rx.recv() branch of the select loop
on_command(t, id, cmd) ==
    IF cmd.kind = "Disconnect" THEN Step(t, <<>>, FALSE, TRUE)
    ELSE LET is_connect == cmd.method = "connect"
             s == send_request(t, id, cmd.method, cmd.respond_to)
         IN  IF is_connect /\ t.connect_sent
             THEN Step(t, <<[to |-> cmd.respond_to,
                             result |-> Err("gateway connect already in progress")]>>,
                       FALSE, FALSE)
             ELSE IF IsSome(s.id) /\ t.connect_request_id = None /\ is_connect
             THEN Step([s.task EXCEPT !.connect_request_id = s.id, !.connect_sent = TRUE],
                       s.sends, TRUE, FALSE)
             ELSE Step(s.task, s.sends, IsSome(s.id), FALSE)

\* handle_incoming on a text frame
handle_incoming(t, id, frame) ==
    IF frame.type = "event"
    THEN IF frame.event = "connect.challenge" /\ ~t.connect_sent
         THEN connect_now(t, id)
         ELSE Step(t, <<>>, FALSE, FALSE)
    ELSE IF frame.type = "res"
    THEN LET result == IF frame.ok THEN Ok(frame.payload)
                       ELSE Err(IF IsSome(frame.error) THEN Unwrap(frame.error)
                                ELSE "request failed")
             is_hello == t.connect_request_id = Some(frame.id)
             removed == IF frame.id \in DOMAIN t.pending
                        THEN <<[to |-> t.pending[frame.id], result |-> result]>> ELSE <<>>
             ready == IF is_hello /\ t.ready_tx
                      THEN <<[to |-> ReadyTx, result |-> result]>> ELSE <<>>
         IN  Step([t EXCEPT !.pending = Remove(@, frame.id),
                            !.ready_tx = IF is_hello THEN FALSE ELSE @],
                  removed \o ready, FALSE, FALSE)
    ELSE Step(t, <<>>, FALSE, FALSE)

\* the read.next() branch of the select loop
on_read(t, id, item) ==
    IF item.type \in {"close", "error"} THEN Step(t, <<>>, FALSE, TRUE)
    ELSE handle_incoming(t, id, item)

\* a drop of the receiver that leaves the buffered commands where they are
drop_receiver_leaking(rx) == <<>>

\* the task returns and rx is dropped: the buffered commands are dropped with their
\* respond_to, and each waiting gateway_request maps the error to this text
drop_receiver(rx) ==
    LET requests == SelectSeq(rx, LAMBDA cmd : cmd.kind = "Request")
    IN  [k \in 1..Len(requests) |->
             [to |-> requests[k].respond_to, result |-> Err("gateway response dropped")]]

\* after the loop: pending.drain(), ready_tx, return
task_end(t) ==
    LET ids == Ascending(DOMAIN t.pending)
        drained == [k \in 1..Len(ids) |->
                        [to |-> t.pending[ids[k]], result |-> Err("gateway disconnected")]]
        ready == IF t.ready_tx
                 THEN <<[to |-> ReadyTx,
                         result |-> Err("gateway disconnected before handshake")]>>
                 ELSE <<>>
    IN  [task |-> [t EXCEPT !.phase = "ended", !.pending = <<>>, !.ready_tx = FALSE,
                            !.rx = <<>>],
         sends |-> drained \o ready \o drop_receiver(t.rx)]

\* the task before the loop: Url::parse and connect_async
connect_async(t, outcome) ==
    IF outcome = "ok" THEN [task |-> [t EXCEPT !.phase = "open", !.peer = "up"], sends |-> <<>>]
    ELSE LET e == task_end([t EXCEPT !.ready_tx = FALSE])
         IN  [task |-> e.task,
              sends |-> <<[to |-> ReadyTx,
                           result |-> Err(IF outcome = "invalid url" THEN "invalid gateway url"
                                          ELSE "failed to connect")]>> \o e.sends]

\* mpsc::Sender::is_closed: the receiver is dropped
is_closed(t) == t.phase = "ended"

\* gateway_connect up to the spawn; c is the connection it makes
gateway_connect(g, cs, c) ==
    IF IsSome(g) /\ ~is_closed(cs[Unwrap(g)])
    THEN [ok |-> FALSE, error |-> Some("gateway already connected"), gateway |-> g, conns |-> cs]
    ELSE [ok |-> TRUE, error |-> None, gateway |-> Some(c),
          conns |-> [cs EXCEPT ![c] = NewTask]]

\* gateway_disconnect: guard.take() and a Disconnect command, its send error ignored
gateway_disconnect(g, cs) ==
    IF g = None THEN [gateway |-> None, conns |-> cs]
    ELSE [gateway |-> None,
          conns |-> IF is_closed(cs[Unwrap(g)]) THEN cs
                    ELSE [cs EXCEPT ![Unwrap(g)].rx = Append(@, DisconnectCommand)]]

Init ==
    /\ files = [q \in {} |-> <<>>]
    /\ dirs = {<<>>}
    /\ outfile = None
    /\ nextMsg = 0
    /\ sqlite = [i \in {} |-> <<>>]
    /\ vector = <<>>
    /\ nextMem = 0
    /\ appended = [p \in Pairs |-> <<>>]
    /\ deleted = {}
    /\ holders = [e \in Endpoints |-> 0]
    /\ budget = None
    /\ turn = None
    /\ upserting = <<>>
    /\ handles = [i \in {} |-> <<>>]
    /\ gateway = None
    /\ conns = [c \in 1..MaxConns |-> NoTask]
    /\ calls = [k \in 1..MaxCalls |-> NoCall]
    /\ nextFrame = 0

----------------------------------------------------------------------------
(* Actions on the conversation log *)

SameLog(p, q) == log_path(p[1], p[2]) = log_path(q[1], q[2])

RecordsIn(f, path) == Len(FilterSeq(Lines(FileContent(f, path)), NonEmptyLine))

\* JsonlStorage::append, called with a Message built by Message::new, with_tokens, with_metadata
StorageAppend(agent_id, topic_id, metadata, now) ==
    /\ nextMsg < MaxMsgs
    /\ LET id == nextMsg + 1
           m0 == with_tokens(MessageNew(id, agent_id, topic_id, "Tool", "hello", now), 7)
           message == IF IsSome(metadata) THEN with_metadata(m0, Unwrap(metadata)) ELSE m0
           r == append(files, dirs, message)
       IN  /\ files' = r.files
           /\ dirs' = r.dirs
           /\ nextMsg' = id
           /\ appended' = IF r.ok
                          THEN [appended EXCEPT ![<<agent_id, topic_id>>] = Append(@, message)]
                          ELSE appended
    /\ UNCHANGED <<outfile, memVars, lockVars, budgetVars, chatVars, taskVars, gatewayVars>>

\* POST /messages
AppendMessage(req, now) ==
    /\ nextMsg < MaxMsgs
    /\ LET id == nextMsg + 1
           r == append_message(files, dirs, id, req, now)
       IN  /\ files' = r.files
           /\ dirs' = r.dirs
           /\ nextMsg' = IF r.built THEN id ELSE nextMsg
           /\ appended' = IF r.status = 200
                          THEN [appended EXCEPT ![<<req.agent_id, req.topic_id>>] =
                                    Append(@, with_tokens(MessageNew(id, req.agent_id, req.topic_id,
                                                                     Unwrap(RoleFromName(req.role)),
                                                                     req.content, now),
                                                          count(req.content)))]
                          ELSE appended
    /\ UNCHANGED <<outfile, memVars, lockVars, budgetVars, chatVars, taskVars, gatewayVars>>

\* JsonlStorage::export_topic to the export file
ExportTopic(agent_id, topic_id) ==
    /\ LET r == export_topic(files, agent_id, topic_id)
       IN  /\ outfile' = IF r.ok THEN r.out ELSE outfile
    /\ UNCHANGED <<files, dirs, nextMsg, appended, memVars, lockVars, budgetVars, chatVars, taskVars,
                   gatewayVars>>

\* JsonlStorage::import_topic from the export file
ImportTopic(agent_id, topic_id) ==
    /\ RecordsIn(files, log_path(agent_id, topic_id))
           + (IF IsSome(outfile) THEN Len(Unwrap(outfile)) ELSE 0) <= MaxLogLen
    /\ LET r == import_topic(files, dirs, agent_id, topic_id, outfile)
           path == log_path(agent_id, topic_id)
           n == RecordsIn(r.files, path) - RecordsIn(files, path)
           written == [k \in 1..n |-> [MessageFromJson(Unwrap(outfile)[k])
                                            EXCEPT !.agent_id = agent_id, !.topic_id = topic_id]]
       IN  /\ files' = r.files
           /\ dirs' = r.dirs
           /\ appended' = [appended EXCEPT ![<<agent_id, topic_id>>] = @ \o written]
    /\ UNCHANGED <<outfile, nextMsg, memVars, lockVars, budgetVars, chatVars, taskVars,
                   gatewayVars>>

\* JsonlStorage::delete_topic
DeleteTopic(agent_id, topic_id) ==
    /\ files' = delete_topic(files, agent_id, topic_id)
    /\ appended' = [p \in Pairs |-> IF SameLog(p, <<agent_id, topic_id>>) THEN <<>>
                                    ELSE appended[p]]
    /\ UNCHANGED <<dirs, outfile, nextMsg, memVars, lockVars, budgetVars, chatVars, taskVars,
                   gatewayVars>>

----------------------------------------------------------------------------
(* Actions on memories *)

\* POST /memories
CreateMemory(req, now, outcome) ==
    /\ nextMem < MaxMem
    /\ LET id == nextMem + 1
           r == create_memory(sqlite, vector, id, req, now, outcome[1], outcome[2], outcome[3])
       IN  /\ sqlite' = r.sqlite
           /\ vector' = r.vector
           /\ nextMem' = IF r.built THEN id ELSE nextMem
    /\ UNCHANGED <<deleted, logVars, lockVars, budgetVars, chatVars, taskVars, gatewayVars>>

\* the ids a caller can name: those handed out so far and one that is never handed out
\* (a Uuid::new_v4 drawn later differs from every id named before)
Nameable(id) == id <= nextMem \/ id = MaxMem + 1

\* DELETE /memories/:id
DeleteMemory(id_text, deleted_ok) ==
    /\ IsSome(ParseUuid(id_text)) => Nameable(Unwrap(ParseUuid(id_text)))
    /\ LET r == http_delete_memory(sqlite, vector, id_text, deleted_ok)
       IN  /\ sqlite' = r.sqlite
           /\ vector' = r.vector
           /\ deleted' = IF r.status = 204 THEN deleted \cup {id_text.hyphenated} ELSE deleted
    /\ UNCHANGED <<nextMem, logVars, lockVars, budgetVars, chatVars, taskVars, gatewayVars>>

\* MemoryStore::deactivate_memory
DeactivateMemory(id) ==
    /\ Nameable(id)
    /\ sqlite' = deactivate_memory(sqlite, id)
    /\ UNCHANGED <<vector, nextMem, deleted, logVars, lockVars, budgetVars, chatVars, taskVars,
                   gatewayVars>>

\* MemoryStore::reactivate_memory
ReactivateMemory(id) ==
    /\ Nameable(id)
    /\ sqlite' = reactivate_memory(sqlite, id)
    /\ UNCHANGED <<vector, nextMem, deleted, logVars, lockVars, budgetVars, chatVars, taskVars,
                   gatewayVars>>

\* SqliteStorage::mark_memory_used
MarkMemoryUsed(id, now) ==
    /\ Nameable(id)
    /\ id \in DOMAIN sqlite => sqlite[id].retrieval_count < MaxUses
    /\ sqlite' = mark_memory_used(sqlite, id, now)
    /\ UNCHANGED <<vector, nextMem, deleted, logVars, lockVars, budgetVars, chatVars, taskVars,
                   gatewayVars>>

----------------------------------------------------------------------------
(* Specifications *)

LogNext ==
    \/ \E p \in Pairs, md \in MetadataInputs, now \in MsgTimes : StorageAppend(p[1], p[2], md, now)
    \/ \E req \in MessageRequests, now \in MsgTimes : AppendMessage(req, now)
    \/ \E p \in Pairs : ExportTopic(p[1], p[2])
    \/ \E p \in Pairs : ImportTopic(p[1], p[2])
    \/ \E p \in Pairs : DeleteTopic(p[1], p[2])

ServiceNext ==
    \/ \E req \in CreateRequests, now \in Times, o \in Outcomes : CreateMemory(req, now, o)
    \/ \E t \in IdTexts, ok \in BOOLEAN : DeleteMemory(t, ok)
    \/ \E id \in MemIds : DeactivateMemory(id)
    \/ \E id \in MemIds : ReactivateMemory(id)

StoreNext ==
    \/ ServiceNext
    \/ \E id \in MemIds, now \in Times : MarkMemoryUsed(id, now)

Next == LogNext \/ StoreNext

\* the conversation log alone
SpecLog == Init /\ [][LogNext]_vars

\* the memory operations of the service alone
SpecService == Init /\ [][ServiceNext]_vars

Spec == Init /\ [][Next]_vars

\* the memory operations with mark_memory_used
SpecStore == Init /\ [][StoreNext]_vars

ValidationNext ==
    \/ \E req \in CreateRequests, now \in Times, o \in Outcomes : CreateMemory(req, now, o)
    \/ \E req \in MessageRequests, now \in MsgTimes : AppendMessage(req, now)

\* the two validating handlers, POST /memories and POST /messages
SpecValidation == Init /\ [][ValidationNext]_vars

----------------------------------------------------------------------------
(* Properties of the conversation log *)

\* no other (agent, topic) whose log is the same file has written to it
NoOtherWriter(p) == \A q \in Pairs : (q /= p /\ SameLog(p, q)) => appended[q] = <<>>

Ids(ms) == [k \in 1..Len(ms) |-> ms[k].id]

\* the last min(k, Len(s)) elements of s
Suffix(s, k) == SubSeq(s, Len(s) - Min2(k, Len(s)) + 1, Len(s))

(* C1: after any appends on one (agent, topic) since the last delete_topic *)
(* of its log, read_all returns exactly the appended messages in append    *)
(* order, and read_last_n(k) returns the last min(k, total) of them in the *)
(* same order: none for k = 0, all for k >= total.  The appends are those  *)
(* of this (agent, topic): no other pair naming the same file has written. *)
C1_ReadsReturnAppendsInOrder ==
    \A p \in Pairs : NoOtherWriter(p) =>
        LET all == read_all(files, p[1], p[2])
        IN  /\ all.ok
            /\ Ids(all.messages) = Ids(appended[p])
            /\ \A k \in 0..(MaxLogLen + 1) :
                   LET r == read_last_n(files, p[1], p[2], k)
                   IN  /\ r.ok
                       /\ Ids(r.messages) = Suffix(Ids(appended[p]), k)
                       /\ Len(r.messages) = Min2(k, Len(appended[p]))

\* two messages appended to one log, the last of them read back by read_last_n(1)
C1_Witness ==
    \E p \in Pairs :
        /\ NoOtherWriter(p)
        /\ Len(appended[p]) = 2
        /\ appended[p][1].id /= appended[p][2].id
        /\ Ids(read_last_n(files, p[1], p[2], 1).messages) = <<appended[p][2].id>>
        /\ Ids(read_all(files, p[1], p[2]).messages) = Ids(appended[p])

(* C2: every Message appended and then read back with read_all is equal,   *)
(* field for field (id, agent_id, topic_id, role, content, tokens,         *)
(* timestamp, metadata), to the Message that was written.                  *)
C2_RoundTrip ==
    \A p \in Pairs : NoOtherWriter(p) =>
        LET all == read_all(files, p[1], p[2])
        IN  all.ok /\ all.messages = appended[p]

(* C3: messages are immutable once appended: across any step that does not *)
(* delete the log of an (agent, topic), the earlier read_all result is a   *)
(* prefix of the later one, whatever was appended or imported; and a log   *)
(* file goes away only by a delete_topic of that log.                      *)
C3_AppendOnly ==
    [][\A p \in Pairs :
           LET path == log_path(p[1], p[2])
               before == read_all(files, p[1], p[2])
               after == read_all(files', p[1], p[2])
               removed == path \in DOMAIN files /\ path \notin DOMAIN files'
           IN  /\ removed => \E q \in Pairs : SameLog(p, q) /\ DeleteTopic(q[1], q[2])
               /\ ~removed => (before.ok => after.ok /\ IsPrefix(before.messages, after.messages))
      ]_vars

\* a log that holds two records with the same id: an export was imported back into it
C3_Witness ==
    \E p \in Pairs :
        LET all == read_all(files, p[1], p[2])
        IN  /\ all.ok
            /\ Len(all.messages) = 2
            /\ all.messages[1].id = all.messages[2].id
            /\ IsSome(outfile)

----------------------------------------------------------------------------
(* Properties of the memory stores *)

\* the scope-shape rule of a Memory
ScopeShape(m) ==
    CASE m.scope \in {"Global", "Personal"} -> m.agent_id = None /\ m.topic_id = None
      [] m.scope = "Agent" -> IsSome(m.agent_id) /\ m.topic_id = None
      [] m.scope = "Topic" -> IsSome(m.agent_id) /\ IsSome(m.topic_id)

\* every result of list_memories, over all its filters
Listed(db) ==
    UNION { Range(list_memories(db, scope, agent_id, topic_id, active_only)) :
                scope \in Option(MemoryScopes), agent_id \in Option(MemAgents),
                topic_id \in Option(MemTopics), active_only \in BOOLEAN }

(* C4: after any create, deactivate, reactivate, mark-used and delete      *)
(* operations, every memory that get_memory or list_memories returns has   *)
(* the shape of its scope: global and personal carry no agent_id and no    *)
(* topic_id, agent carries an agent_id and no topic_id, topic carries both.*)
C4_ScopeShape ==
    /\ \A id \in MemIds :
           IsSome(get_memory(sqlite, id)) => ScopeShape(Unwrap(get_memory(sqlite, id)))
    /\ \A m \in Listed(sqlite) : ScopeShape(m)

\* a topic memory and a global memory are listed, one of them used, one of them inactive
C4_Witness ==
    /\ \E m \in Listed(sqlite) : m.scope = "Topic" /\ IsSome(m.topic_id)
    /\ \E m \in Listed(sqlite) : m.scope = "Global" /\ m.agent_id = None
    /\ \E m \in Listed(sqlite) : m.retrieval_count > 0
    /\ \E m \in Listed(sqlite) : ~m.active

\* the requests POST /memories has to reject
InvalidCreate(req) ==
    \/ req.scope \notin {"global", "agent", "topic", "personal"}
    \/ req.memory_type \notin {"correction", "preference", "fact", "workflow", "constraint"}
    \/ req.scope = "agent" /\ req.agent_id = None
    \/ req.scope = "topic" /\ (req.agent_id = None \/ req.topic_id = None)

\* the requests POST /messages has to reject
InvalidMessage(req) == req.role \notin {"user", "assistant", "system", "tool"}

(* C5: create_memory answers 400 to a request whose scope or memory_type   *)
(* is outside the vocabulary, to scope agent without agent_id and to scope *)
(* topic without agent_id or topic_id; append_message answers 400 to an    *)
(* unknown role; each such rejection leaves sqlite, the vector store and   *)
(* the log files as they were.                                             *)
C5_RejectsBadInput ==
    /\ \A req \in CreateRequests, now \in Times, o \in Outcomes :
           InvalidCreate(req) =>
               LET r == create_memory(sqlite, vector, nextMem + 1, req, now, o[1], o[2], o[3])
               IN  r.status = 400 /\ r.sqlite = sqlite /\ r.vector = vector /\ ~r.built
    /\ \A req \in MessageRequests, now \in MsgTimes :
           InvalidMessage(req) =>
               LET r == append_message(files, dirs, nextMsg + 1, req, now)
               IN  r.status = 400 /\ r.files = files /\ r.dirs = dirs /\ ~r.built

\* with a memory stored and a message logged, requests of each rejected kind get 400
C5_Witness ==
    /\ DOMAIN sqlite /= {}
    /\ vector /= <<>>
    /\ DOMAIN files /= {}
    /\ \A bad \in {"scope", "type", "agent", "topic"} :
           \E req \in CreateRequests :
               /\ CASE bad = "scope" -> req.scope = "Global"
                    [] bad = "type" -> req.memory_type = "note" /\ req.scope = "global"
                    [] bad = "agent" -> req.scope = "agent" /\ req.agent_id = None
                                            /\ req.memory_type = "correction"
                    [] bad = "topic" -> req.scope = "topic" /\ IsSome(req.agent_id)
                                            /\ req.topic_id = None
                                            /\ req.memory_type = "correction"
               /\ create_memory(sqlite, vector, nextMem + 1, req, 0, TRUE, TRUE, TRUE).status = 400
    /\ \E req \in MessageRequests :
           /\ req.role = "User"
           /\ append_message(files, dirs, nextMsg + 1, req, MaxTime).status = 400

IdText(id) == [hyphenated |-> id]

\* what holds of the lifecycle operations in every state
C6_States ==
    /\ \A id \in MemIds :
           LET off == deactivate_memory(sqlite, id)
               on == reactivate_memory(sqlite, id)
               gone == http_delete_memory(sqlite, vector, IdText(id), TRUE)
           IN  /\ id \in DOMAIN sqlite =>
                      /\ off = [sqlite EXCEPT ![id].active = FALSE]
                      /\ on = [sqlite EXCEPT ![id].active = TRUE]
                      /\ ~Unwrap(get_memory(off, id)).active
                      /\ Unwrap(get_memory(on, id)).active
               /\ gone.status = 204 /\ get_memory(gone.sqlite, id) = None
               /\ get_memory(sqlite, id) = None =>
                      /\ get_memory(off, id) = None
                      /\ get_memory(on, id) = None
                      /\ \A now \in Times : get_memory(mark_memory_used(sqlite, id, now), id) = None
    /\ \A id \in deleted : get_memory(sqlite, id) = None

\* what holds of every step: a memory that appears is active
C6_Steps ==
    \A id \in MemIds :
        (get_memory(sqlite, id) = None /\ IsSome(get_memory(sqlite', id)))
            => Unwrap(get_memory(sqlite', id)).active

(* C6: a memory is active, inactive or gone: create yields active = true;  *)
(* deactivate makes it inactive and reactivate makes it active, changing   *)
(* no other field; delete makes it gone from either state; once gone, no   *)
(* deactivate, reactivate or mark_memory_used brings get_memory(id) back.  *)
C6_Lifecycle == []C6_States /\ [][C6_Steps]_vars

\* one memory deleted, another one used and then deactivated
C6_Witness ==
    /\ deleted /= {}
    /\ \E id \in DOMAIN sqlite :
           /\ ~Unwrap(get_memory(sqlite, id)).active
           /\ sqlite[id].retrieval_count > 0
           /\ Unwrap(get_memory(reactivate_memory(sqlite, id), id)).active

\* the ids a retrieval returns
Retrieved(req) ==
    LET r == retrieve(sqlite, vector, files, req.query, req.agent_id, req.topic_id, 10)
    IN  {r.memories[k].id : k \in 1..Len(r.memories)}

PlainRetrieveRequests == {req \in RetrieveRequests : req.agent_id /= Some(QuotedAgent)}

(* C7: retrieve never returns a memory whose active flag is false: from    *)
(* deactivate_memory(id) until reactivate_memory(id) no retrieval result   *)
(* contains id.                                                            *)
C7_RetrieveSkipsInactive ==
    \A req \in PlainRetrieveRequests : \A id \in Retrieved(req) :
        id \in DOMAIN sqlite => sqlite[id].active

\* every result of VectorStorage::search, over its filters, with no minimum score
Searched(v) ==
    UNION { {r.id : r \in Range(search(v, embed(query), max_retrieval_results, 0,
                                       scope_filter, agent_filter).results)} :
                query \in {"kebab", "snake"},
                scope_filter \in Option({<<"global">>, <<"agent">>, <<"topic">>}),
                agent_filter \in Option(MemAgents) }

(* C8: once delete_memory(id) has returned success, id has no row in       *)
(* sqlite and no row in the vector store: get_memory(id) is not found,     *)
(* list_memories omits it, and no search or retrieve returns it.           *)
C8_DeletedIsGone ==
    \A id \in deleted :
        /\ id \notin DOMAIN sqlite
        /\ \A k \in 1..Len(vector) : ~HasId(vector[k], id)
        /\ http_get_memory(sqlite, IdText(id)).status = 404
        /\ \A m \in Listed(sqlite) : m.id /= id
        /\ id \notin Searched(vector)
        /\ \A req \in RetrieveRequests : id \notin Retrieved(req)

\* one memory deleted while another one is still stored and retrieved
C8_Witness ==
    /\ deleted /= {}
    /\ \E id \in DOMAIN sqlite, req \in PlainRetrieveRequests :
           id \notin deleted /\ id \in Retrieved(req)

(* C9: delete_memory is idempotent: DELETE /memories/<id> of an id that    *)
(* was never created or is already deleted answers 204 (the vector engine  *)
(* answering its delete), leaves sqlite and the vector store unchanged,    *)
(* and a following GET /memories/<id> answers 404.                         *)
C9_DeleteIdempotent ==
    \A id \in MemIds : (id > nextMem \/ id \in deleted) =>
        LET r == http_delete_memory(sqlite, vector, IdText(id), TRUE)
        IN  /\ r.status = 204
            /\ r.sqlite = sqlite
            /\ r.vector = vector
            /\ http_get_memory(r.sqlite, IdText(id)).status = 404

\* a deleted id is deleted again, and an id never created is deleted, next to a stored memory
C9_Witness ==
    /\ DOMAIN sqlite /= {}
    /\ vector /= <<>>
    /\ \E id \in deleted :
           http_delete_memory(sqlite, vector, IdText(id), TRUE).status = 204
    /\ http_delete_memory(sqlite, vector, IdText(MaxMem + 1), TRUE).status = 204

\* the vector store's row of an id
VectorRowOf(id) == CHOOSE row \in Range(vector) : HasId(row, id)

(* C10: retrieve with agent_id = x returns only memories of scope global   *)
(* and memories of scope agent whose agent_id is x; retrieve without       *)
(* agent_id returns only memories of scope global; so an agent memory of   *)
(* a1 is never returned for agent_id a2 and a topic memory is never        *)
(* returned.                                                               *)
C10_RetrieveScopes ==
    \A req \in RetrieveRequests : \A id \in Retrieved(req) :
        LET row == VectorRowOf(id)
        IN  \/ row.scope = "global"
            \/ /\ IsSome(req.agent_id)
               /\ row.scope = "agent"
               /\ row.agent_id = req.agent_id

----------------------------------------------------------------------------
(* Properties of saving and searching *)

HasVectorRow(v, id) == \E k \in 1..Len(v) : HasId(v[k], id)

(* C11: read-your-write for memories: once create_memory (save_memory) has *)
(* returned success for a memory with an embedding of the configured       *)
(* length, the memory has a sqlite row and a vector row, and a search with *)
(* that embedding as query, a limit of at least 1 and the memory's scope   *)
(* as filter returns a hit of distance 0, score 1 >= min_similarity_score; *)
(* a memory whose vector upsert has not completed is returned by no search.*)
C11_ReadYourWrite ==
    /\ \A req \in CreateRequests, now \in Times, o \in Outcomes :
           LET id == nextMem + 1
               r == create_memory(sqlite, vector, id, req, now, o[1], o[2], o[3])
           IN  r.status = 200 =>
                   /\ IsSome(get_memory(r.sqlite, id))
                   /\ HasVectorRow(r.vector, id)
                   /\ \A limit \in {1, MaxMem + 1} :
                          LET s == search(r.vector, embed(req.content), limit,
                                          min_similarity_score,
                                          Some(<<ScopeName(Unwrap(get_memory(r.sqlite, id)).scope)>>),
                                          None)
                          IN  /\ s.ok
                              /\ \E k \in 1..Len(s.results) :
                                     /\ s.results[k].score = Score(0)
                                     /\ AtLeastMinScore(s.results[k].score, min_similarity_score)
    /\ \A id \in MemIds : ~HasVectorRow(vector, id) => id \notin Searched(vector)

\* one memory saved in both stores and found by a search for its own embedding, next to one
\* whose vector upsert failed
C11_Witness ==
    /\ \E id \in DOMAIN sqlite :
           /\ HasVectorRow(vector, id)
           /\ \E k \in 1..Len(search(vector, embed(sqlite[id].content), 1, min_similarity_score,
                                     Some(<<sqlite[id].scope>>), None).results) :
                  search(vector, embed(sqlite[id].content), 1, min_similarity_score,
                         Some(<<sqlite[id].scope>>), None).results[k].score = Score(0)
    /\ \E id \in DOMAIN sqlite : ~HasVectorRow(vector, id) /\ id \notin Searched(vector)

(* C12: retrieve drops every vector hit whose id has no sqlite row: in any *)
(* state, also one where a delete removed the sqlite row and left the      *)
(* vector row, no retrieval result holds an id that get_memory does not    *)
(* find.                                                                   *)
C12_RetrieveDropsOrphans ==
    \A req \in PlainRetrieveRequests : \A id \in Retrieved(req) :
        IsSome(get_memory(sqlite, id))

\* an embedding whose length is not the configured one
ShortVec == [len |-> embedding_dimensions - 1, lead |-> <<0, 10>>]

\* the Memory values a caller of MemoryStore::save_memory passes for a new id
NewMemories ==
    {with_embedding(MemoryGlobal(nextMem + 1, "Correction", "kebab", MaxTime), e) :
         e \in {embed("kebab"), ShortVec}}

\* the Memory values a caller passes for an id that is stored already: the stored memory
\* with a new content and a new embedding
ChangedMemories(db) ==
    {with_embedding([Unwrap(get_memory(db, id)) EXCEPT !.content = "snake"], e) :
         id \in DOMAIN db, e \in {embed("snake"), ShortVec}}

\* the ids a retrieval over the given stores returns
RetrievedIn(db, v, req) ==
    LET r == retrieve(db, v, files, req.query, req.agent_id, req.topic_id, 10)
    IN  {r.memories[k].id : k \in 1..Len(r.memories)}

(* C13: when save_memory's sqlite save succeeds and the vector upsert then *)
(* fails, save_memory returns an error, get_memory and list_memories       *)
(* return the memory, and no search and no retrieve returns it.            *)
C13_FailedUpsertNotSearchable ==
    \A m \in NewMemories \cup ChangedMemories(sqlite), o \in Outcomes :
        LET up == vector_upsert_memory(vector, m, o[2], o[3])
            r == save_memory(sqlite, vector, m, o[2], o[3])
        IN  ~up.ok =>
                /\ ~r.ok
                /\ IsSome(get_memory(r.sqlite, m.id))
                /\ \E k \in 1..Len(list_memories(r.sqlite, None, None, None, FALSE)) :
                       list_memories(r.sqlite, None, None, None, FALSE)[k].id = m.id
                /\ m.id \notin Searched(r.vector)
                /\ \A req \in PlainRetrieveRequests : m.id \notin RetrievedIn(r.sqlite, r.vector, req)

\* Memory values without an embedding or with one of the wrong length, for new and stored ids
BadEmbeddingMemories(db) ==
    {[m EXCEPT !.embedding = e] :
         m \in NewMemories \cup ChangedMemories(db), e \in {None, Some(ShortVec)}}

(* C14: a direct upsert_memory of a memory whose embedding is absent or of *)
(* a length other than embedding_dimensions fails with a vector-db error   *)
(* and changes nothing: the vector store keeps an existing row of the id   *)
(* untouched (upsert_memory has no access to sqlite).                      *)
C14_BadEmbeddingRejected ==
    \A m \in BadEmbeddingMemories(sqlite), o \in Outcomes :
        LET up == vector_upsert_memory(vector, m, o[2], o[3])
        IN  /\ ~up.ok
            /\ up.error = Some("vector_db")
            /\ up.vector = vector

\* a stored memory with a vector row is upserted with a short embedding and with none
C14_Witness ==
    \E m \in BadEmbeddingMemories(sqlite) :
        /\ HasVectorRow(vector, m.id)
        /\ m.embedding = Some(ShortVec)
        /\ ~vector_upsert_memory(vector, m, TRUE, TRUE).ok
        /\ ~vector_upsert_memory(vector, [m EXCEPT !.embedding = None], TRUE, TRUE).ok
        /\ HasVectorRow(vector_upsert_memory(vector, m, TRUE, TRUE).vector, m.id)

\* the Memory values a caller of save_memory passes for a stored id, every field set anew
ResavedMemories(db) ==
    {[id |-> id, scope |-> scope, memory_type |-> "Fact", agent_id |-> agent_id,
      topic_id |-> topic_id, content |-> "snake", context |-> Some("why"),
      tags |-> <<"style">>, embedding |-> None, created_at |-> created_at,
      last_used_at |-> Some(MaxTime), retrieval_count |-> MaxUses + 1, active |-> active] :
         id \in DOMAIN db, scope \in {"Global", "Topic"},
         agent_id \in {None, Some(<<"a2">>)}, topic_id \in {None, Some(<<"t1">>)},
         created_at \in Times, active \in BOOLEAN}

(* C15: save_memory on an id that already has a sqlite row sets content,   *)
(* context, tags, last_used_at, retrieval_count and active to the new      *)
(* values and leaves scope, memory_type, agent_id, topic_id and created_at *)
(* as first stored; the id keeps one row and no other row changes.         *)
C15_UpsertKeepsIdentity ==
    \A m \in ResavedMemories(sqlite) :
        LET r == save_memory(sqlite, vector, m, TRUE, TRUE)
            old == Unwrap(get_memory(sqlite, m.id))
            new == get_memory(r.sqlite, m.id)
        IN  /\ r.ok
            /\ DOMAIN r.sqlite = DOMAIN sqlite
            /\ \A i \in DOMAIN sqlite \ {m.id} : r.sqlite[i] = sqlite[i]
            /\ r.vector = vector
            /\ new = Some([m EXCEPT !.scope = old.scope, !.memory_type = old.memory_type,
                                    !.agent_id = old.agent_id, !.topic_id = old.topic_id,
                                    !.created_at = old.created_at])
            /\ Len(SelectSeq(list_memories(r.sqlite, None, None, None, FALSE),
                             LAMBDA x : x.id = m.id)) = 1

\* an agent memory is saved again as a topic memory of another agent with another created_at
C15_Witness ==
    \E m \in ResavedMemories(sqlite) :
        LET old == Unwrap(get_memory(sqlite, m.id))
            new == Unwrap(get_memory(save_memory(sqlite, vector, m, TRUE, TRUE).sqlite, m.id))
        IN  /\ old.scope = "Agent" /\ m.scope = "Topic"
            /\ old.agent_id = Some(<<"a1">>) /\ m.agent_id = Some(<<"a2">>)
            /\ old.created_at /= m.created_at
            /\ old.active /= m.active
            /\ new.scope = "Agent" /\ new.agent_id = Some(<<"a1">>)
            /\ new.content = "snake" /\ new.active = m.active
            /\ new.retrieval_count = MaxUses + 1

(* C16: after mark_memory_used(id) on a stored memory, get_memory(id)      *)
(* reports a retrieval_count one higher than before and a present          *)
(* last_used_at holding the time of the call, every other field unchanged  *)
(* (so n calls raise retrieval_count by n); on an unknown id the call      *)
(* changes nothing.                                                        *)
C16_MarkUsed ==
    \A id \in MemIds, now \in Times :
        LET db2 == mark_memory_used(sqlite, id, now)
        IN  IF id \in DOMAIN sqlite
            THEN get_memory(db2, id) =
                     Some([Unwrap(get_memory(sqlite, id)) EXCEPT
                               !.retrieval_count = @ + 1, !.last_used_at = Some(now)])
            ELSE db2 = sqlite

\* The MetaStore after RetrievalEngine::retrieve: the function calls embed,
\* vector().search and jsonl().read_last_n only, and no SqliteStorage method
retrieve_sqlite(db, v, f, req) == db

(* C17: each retrieve that returns a memory m raises m's retrieval_count   *)
(* in the MetaStore by one and sets its last_used_at, and changes no other *)
(* field of any memory.                                                    *)
C17_RetrieveCountsUse ==
    \A req \in PlainRetrieveRequests :
        LET db2 == retrieve_sqlite(sqlite, vector, files, req)
        IN  /\ DOMAIN db2 = DOMAIN sqlite
            /\ \A id \in DOMAIN sqlite :
                   IF id \in Retrieved(req)
                   THEN /\ db2[id].retrieval_count = sqlite[id].retrieval_count + 1
                        /\ IsSome(db2[id].last_used_at)
                        /\ [db2[id] EXCEPT !.retrieval_count = 0, !.last_used_at = None]
                             = [sqlite[id] EXCEPT !.retrieval_count = 0, !.last_used_at = None]
                   ELSE db2[id] = sqlite[id]

\* the arguments search is called with here
SearchQueries == {embed("kebab"), embed("case"), embed("snake")}
SearchLimits == {1, MaxMem + 1}
SearchMinScores == {0, min_similarity_score}
SearchScopes == Option({<<"global">>, <<"agent">>})
SearchAgents == Option(MemAgents \cup {QuotedAgent})

\* what C18 says of one call of search on table v
SearchContract(v, query, limit, min_score, scope_filter, agent_filter) ==
    LET r == search(v, query, limit, min_score, scope_filter, agent_filter)
    IN  r.ok =>
          /\ Len(r.results) <= limit
          /\ \A k \in 1..Len(r.results) :
                 /\ \E i \in 1..Len(v) :
                        /\ v[i].id = r.results[k].id
                        /\ IsSome(scope_filter) => Some(<<v[i].scope>>) = scope_filter
                        /\ IsSome(agent_filter) => v[i].agent_id = agent_filter
                        /\ r.results[k].score = Score(Distance(query, v[i].vector))
                 /\ AtLeastMinScore(r.results[k].score, min_score)
          /\ \A k \in 1..(Len(r.results) - 1) :
                 ScoreGE(r.results[k].score, r.results[k + 1].score)

(* C18: search(query, limit, min-score, scope?, agent-id?) returns at most *)
(* limit hits, each from a row that satisfies every supplied filter (scope *)
(* equal and agent_id equal), each with score = 1/(1+d) >= min-score for   *)
(* the row's distance d to the query, in non-increasing score order.       *)
C18_SearchContract ==
    \A query \in SearchQueries, limit \in SearchLimits, min_score \in SearchMinScores,
       scope_filter \in SearchScopes, agent_filter \in SearchAgents :
        SearchContract(vector, query, limit, min_score, scope_filter, agent_filter)

----------------------------------------------------------------------------
(* Ranking in retrieve *)

\* enough rows for one search to find more than max_retrieval_results / 2 of them
MaxRows == 7

\* the memories handed to embed_and_save here
RankedMemories(id) ==
    {MemoryGlobal(id, "Correction", "kebab", MaxTime),
     MemoryGlobal(id, "Correction", "case", MaxTime),
     MemoryForAgent(id, <<"a1">>, "Correction", "kebab", MaxTime)}

\* RetrievalEngine::embed_and_save of a new memory, the embedding model and both stores working
EmbedAndSave(m) ==
    /\ nextMem < MaxRows
    /\ m.id = nextMem + 1
    /\ LET r == embed_and_save(sqlite, vector, m, TRUE, TRUE, TRUE)
       IN  /\ sqlite' = r.sqlite
           /\ vector' = r.vector
    /\ nextMem' = nextMem + 1
    /\ UNCHANGED <<deleted, logVars, lockVars, budgetVars, chatVars, taskVars, gatewayVars>>

RankingNext == \E m \in RankedMemories(nextMem + 1) : EmbedAndSave(m)

\* a store filled by embed_and_save, read by retrieve
SpecRanking == Init /\ [][RankingNext]_vars

RetrievedMemories(req) ==
    retrieve(sqlite, vector, files, req.query, req.agent_id, req.topic_id, 10).memories

(* C19: retrieve returns at most max_retrieval_results memories, sorted by *)
(* score in non-increasing order across the merged global and agent hits,  *)
(* at most max_retrieval_results / 2 of them from the global search and at *)
(* most max_retrieval_results / 2 from the agent search.                   *)
C19_RetrieveRanked ==
    \A req \in RetrieveRequests :
        LET ms == RetrievedMemories(req)
        IN  /\ Len(ms) <= max_retrieval_results
            /\ \A k \in 1..(Len(ms) - 1) : ScoreGE(ms[k].score, ms[k + 1].score)
            /\ Cardinality({k \in 1..Len(ms) : ms[k].scope = "global"})
                   <= max_retrieval_results \div 2
            /\ Cardinality({k \in 1..Len(ms) : ms[k].scope /= "global"})
                   <= max_retrieval_results \div 2

\* more global rows pass than one search may return, and the merged hits of the two
\* searches have different scores
C19_Witness ==
    /\ Cardinality({i \in 1..Len(vector) : vector[i].scope = "global"})
           > max_retrieval_results \div 2
    /\ \E req \in RetrieveRequests :
           LET ms == RetrievedMemories(req)
           IN  /\ Cardinality({k \in 1..Len(ms) : ms[k].scope = "global"})
                      = max_retrieval_results \div 2
               /\ \E k \in 1..Len(ms) : ms[k].scope = "agent"
               /\ \E j, k \in 1..Len(ms) : ms[j].score /= ms[k].score

----------------------------------------------------------------------------
(* Appends in concurrent handlers.  append_message takes the read side of  *)
(* the state lock, so several appends run at once; writeln!(file, "{}",    *)
(* json) on a File is two writes, the JSON text and then the newline.      *)

\* append up to and including the first write: ensure_dir, open(create, append), the JSON text
append_json(f, d, message) ==
    LET d2 == ensure_dir(d, message.agent_id)
        path == log_path(message.agent_id, message.topic_id)
        old == FileContent(f, path)
    IN  IF Parent(path) \notin d2
        THEN [ok |-> FALSE, files |-> f, dirs |-> d2, offset |-> 0]
        ELSE [ok |-> TRUE,
              files |-> WriteFile(f, path, old \o <<JsonChunk(MessageToJson(message))>>),
              dirs |-> d2,
              offset |-> Len(old)]

\* the second write of writeln!: the newline, at the end of the file as it is then
append_newline(f, path) == WriteFile(f, path, FileContent(f, path) \o <<NlChunk>>)

\* the appends that have written their JSON text and not yet their newline
Unterminated(f, path) ==
    Cardinality({i \in 1..Len(FileContent(f, path)) : FileContent(f, path)[i].kind = "json"})
        - Cardinality(NlPositions(FileContent(f, path)))

\* a handler runs JsonlStorage::append as far as the JSON text
WriteRecord(agent_id, topic_id, metadata, now) ==
    /\ nextMsg < MaxMsgs
    /\ LET id == nextMsg + 1
           m0 == with_tokens(MessageNew(id, agent_id, topic_id, "Tool", "hello", now), 7)
           message == IF IsSome(metadata) THEN with_metadata(m0, Unwrap(metadata)) ELSE m0
           r == append_json(files, dirs, message)
       IN  /\ files' = r.files
           /\ dirs' = r.dirs
           /\ nextMsg' = id
           /\ appended' = IF r.ok
                          THEN [appended EXCEPT ![<<agent_id, topic_id>>] = Append(@, message)]
                          ELSE appended
    /\ UNCHANGED <<outfile, memVars, lockVars, budgetVars, chatVars, taskVars, gatewayVars>>

\* a handler that has written its JSON text writes its newline and returns
WriteNewline(p) ==
    /\ Unterminated(files, log_path(p[1], p[2])) > 0
    /\ files' = append_newline(files, log_path(p[1], p[2]))
    /\ UNCHANGED <<dirs, outfile, nextMsg, appended, memVars, lockVars, budgetVars, chatVars, taskVars,
                   gatewayVars>>

ConcurrentNext ==
    \/ \E p \in Pairs, metadata \in MetadataInputs, now \in MsgTimes :
           WriteRecord(p[1], p[2], metadata, now)
    \/ \E p \in Pairs : WriteNewline(p)

\* appends of concurrent handlers, step by step; a reader may run in any state
SpecConcurrent == Init /\ [][ConcurrentNext]_vars

(* C20: a read_all (and so read_last_n and total_tokens) that runs         *)
(* concurrently with appends to the same topic never fails and never       *)
(* returns a partial record: it returns a prefix of the sequence of        *)
(* appended messages.                                                      *)
C20_ReadDuringAppends ==
    \A p \in Pairs : NoOtherWriter(p) =>
        LET all == read_all(files, p[1], p[2])
        IN  /\ all.ok
            /\ IsPrefix(Ids(all.messages), Ids(appended[p]))
            /\ \A k \in 0..(MaxLogLen + 1) : read_last_n(files, p[1], p[2], k).ok

(* C21: for any interleaving of appends made by concurrent handlers on one *)
(* (agent, topic), once they have all returned the log holds each appended *)
(* message exactly once as one complete newline-terminated line, so a      *)
(* later read_all succeeds and returns all of them.                        *)
C21_AppendsDoNotInterleave ==
    \A p \in Pairs :
        (NoOtherWriter(p) /\ Unterminated(files, log_path(p[1], p[2])) = 0) =>
            LET ls == Lines(FileContent(files, log_path(p[1], p[2])))
                all == read_all(files, p[1], p[2])
            IN  /\ \A i \in 1..Len(ls) : Len(ls[i]) = 1
                /\ all.ok
                /\ Len(all.messages) = Len(appended[p])
                /\ Range(Ids(all.messages)) = Range(Ids(appended[p]))

----------------------------------------------------------------------------
(* The state lock *)

\* handlers in flight at once
MaxHandlers == 3

Holding == {e \in Endpoints : holders[e] > 0}

HoldersTotal == SumSeq([k \in 1..MaxHandlers |->
                   Cardinality({e \in Endpoints : holders[e] >= k})])

\* the first statement of a handler: RwLock::write() is granted when nobody holds the
\* lock, RwLock::read() when no writer holds it
AcquireLock(endpoint) ==
    /\ HoldersTotal < MaxHandlers
    /\ IF LockSide(endpoint) = "write"
       THEN Holding = {}
       ELSE \A e \in Holding : LockSide(e) = "read"
    /\ holders' = [holders EXCEPT ![endpoint] = @ + 1]
    /\ UNCHANGED <<logVars, memVars, budgetVars, chatVars, taskVars, gatewayVars>>

\* the handler returns and its guard is dropped
ReleaseLock(endpoint) ==
    /\ holders[endpoint] > 0
    /\ holders' = [holders EXCEPT ![endpoint] = @ - 1]
    /\ UNCHANGED <<logVars, memVars, budgetVars, chatVars, taskVars, gatewayVars>>

LockNext ==
    \/ \E endpoint \in Endpoints : AcquireLock(endpoint)
    \/ \E endpoint \in Endpoints : ReleaseLock(endpoint)

\* handlers taking and dropping the state lock
SpecLock == Init /\ [][LockNext]_vars

\* the endpoints that write to a store
WriteEndpoints == {"create_memory", "delete_memory", "append_message"}

(* C22: every write endpoint (create memory, delete memory, append         *)
(* message) holds the write side of the state lock and every read endpoint *)
(* the read side, so a write endpoint never runs concurrently with another *)
(* write endpoint or with a read endpoint.                                 *)
C22_WritersExclusive ==
    \A e \in WriteEndpoints : holders[e] > 0 => HoldersTotal = 1

----------------------------------------------------------------------------
(* jsonl.rs: total_tokens.  A u32 is held as two 16-bit halves, so that    *)
(* sums beyond 2^32 can be told from the u32 the code computes.            *)

Half == 65536

\* a tokens value as halves
U32(n) == [hi |-> n \div Half, lo |-> n % Half]

\* a + b without a width: hi is not reduced
AddWide(a, b) ==
    [hi |-> a.hi + b.hi + ((a.lo + b.lo) \div Half), lo |-> (a.lo + b.lo) % Half]

RECURSIVE SumWide(_)
SumWide(ns) == IF ns = <<>> THEN U32(0) ELSE AddWide(U32(Head(ns)), SumWide(Tail(ns)))

\* the u32 left when the sum wraps
WrapU32(w) == [hi |-> w.hi % Half, lo |-> w.lo]

\* total_tokens: read_all, then messages.iter().map(|m| m.tokens).sum() in u32.  A sum
\* past u32::MAX panics in a build with overflow checks and wraps in one without
total_tokens(f, agent_id, topic_id, overflow_checks) ==
    LET all == read_all(f, agent_id, topic_id)
        wide == SumWide([k \in 1..Len(all.messages) |-> all.messages[k].tokens])
    IN  IF ~all.ok THEN [ok |-> FALSE, panicked |-> FALSE, tokens |-> U32(0)]
        ELSE IF wide.hi >= Half /\ overflow_checks
        THEN [ok |-> FALSE, panicked |-> TRUE, tokens |-> U32(0)]
        ELSE [ok |-> TRUE, panicked |-> FALSE, tokens |-> WrapU32(wide)]

\* logs of up to this many records
MaxTokenMsgs == 3

\* tokens values a Message can carry (u32; the largest here is i32::MAX)
TokenValues == {7, 2147483647}

\* JsonlStorage::append of a Message built by Message::new(..).with_tokens(tokens)
AppendWithTokens(agent_id, topic_id, tokens) ==
    /\ nextMsg < MaxTokenMsgs
    /\ LET id == nextMsg + 1
           message == with_tokens(MessageNew(id, agent_id, topic_id, "Tool", "hello", MaxTime),
                                  tokens)
           r == append(files, dirs, message)
       IN  /\ files' = r.files
           /\ dirs' = r.dirs
           /\ nextMsg' = id
           /\ appended' = IF r.ok
                          THEN [appended EXCEPT ![<<agent_id, topic_id>>] = Append(@, message)]
                          ELSE appended
    /\ UNCHANGED <<outfile, memVars, lockVars, budgetVars, chatVars, taskVars, gatewayVars>>

TokensNext == \E p \in Pairs, tokens \in TokenValues : AppendWithTokens(p[1], p[2], tokens)

\* logs whose records carry small and large tokens values
SpecTokens == Init /\ [][TokensNext]_vars

(* C23: total_tokens(agent, topic) equals the sum of the tokens field over *)
(* all records returned by read_all(agent, topic), and is 0 for a topic    *)
(* with no log; it is the true sum for every log the service can hold: the *)
(* u32 accumulation neither wraps nor aborts.                              *)
C23_TotalTokens ==
    \A p \in Pairs, overflow_checks \in BOOLEAN :
        LET all == read_all(files, p[1], p[2])
            t == total_tokens(files, p[1], p[2], overflow_checks)
        IN  all.ok =>
              /\ t.ok
              /\ t.tokens = SumWide([k \in 1..Len(all.messages) |-> all.messages[k].tokens])
              /\ log_path(p[1], p[2]) \notin DOMAIN files => t.tokens = U32(0)

----------------------------------------------------------------------------
(* retrieval.rs: ContextBudget.  Thresholds are in percent; utilization is *)
(* the fraction used / limit, with the f32 results of a division by zero.  *)

\* largest `used` followed here
MaxUsed == 100

\* ContextBudget::new
ContextBudgetNew(limit, warning_threshold, critical_threshold) ==
    [limit |-> limit, used |-> 0, warning_threshold |-> warning_threshold,
     critical_threshold |-> critical_threshold]

\* ContextBudget::add
add(b, tokens) == [b EXCEPT !.used = @ + tokens]

\* ContextBudget::utilization: used as f32 / limit as f32
utilization(b) == [num |-> b.used, den |-> b.limit]

\* utilization >= threshold in f32: 0/0 is NaN (no comparison holds), x/0 is +inf
UtilizationGE(u, threshold) ==
    IF u.den = 0 THEN u.num > 0 ELSE u.num * 100 >= threshold * u.den

\* utilization < threshold in f32
UtilizationLT(u, threshold) ==
    IF u.den = 0 THEN FALSE ELSE u.num * 100 < threshold * u.den

\* ContextBudget::is_warning
is_warning(b) == UtilizationGE(utilization(b), b.warning_threshold)

\* ContextBudget::is_critical
is_critical(b) == UtilizationGE(utilization(b), b.critical_threshold)

\* ContextBudget::status
status(b) ==
    IF is_critical(b) THEN "critical"
    ELSE IF is_warning(b) THEN "warning"
    ELSE "ok"

\* the arguments of ContextBudget::new and add here
BudgetLimits == {0, 100}
BudgetThresholds == {<<80, 95>>, <<95, 80>>}
BudgetTokens == {70, 15, 12}

BudgetNew(limit, thresholds) ==
    /\ budget' = Some(ContextBudgetNew(limit, thresholds[1], thresholds[2]))
    /\ UNCHANGED <<logVars, memVars, lockVars, chatVars, taskVars, gatewayVars>>

BudgetAdd(tokens) ==
    /\ IsSome(budget)
    /\ Unwrap(budget).used + tokens <= MaxUsed
    /\ budget' = Some(add(Unwrap(budget), tokens))
    /\ UNCHANGED <<logVars, memVars, lockVars, chatVars, taskVars, gatewayVars>>

BudgetNext ==
    \/ \E limit \in BudgetLimits, thresholds \in BudgetThresholds : BudgetNew(limit, thresholds)
    \/ \E tokens \in BudgetTokens : BudgetAdd(tokens)

\* budgets built by new and filled by add
SpecBudget == Init /\ [][BudgetNext]_vars

(* C24: ContextBudget.status is 'ok' iff utilization < warning threshold,  *)
(* 'warning' iff warning threshold <= utilization < critical threshold,    *)
(* and 'critical' otherwise, for every used/limit and every configured     *)
(* pair of thresholds; with limit 100, warning 0.8 and critical 0.95, 70   *)
(* used gives ok, 85 gives warning and 97 gives critical.                  *)
C24_StatusBands ==
    IsSome(budget) =>
        LET b == Unwrap(budget)
            u == utilization(b)
            is_ok == UtilizationLT(u, b.warning_threshold)
            is_warn == UtilizationGE(u, b.warning_threshold)
                           /\ UtilizationLT(u, b.critical_threshold)
        IN  /\ status(b) = "ok" <=> is_ok
            /\ status(b) = "warning" <=> is_warn
            /\ status(b) = "critical" <=> (~is_ok /\ ~is_warn)
            /\ (b.limit = 100 /\ b.warning_threshold = 80 /\ b.critical_threshold = 95) =>
                   /\ b.used = 70 => status(b) = "ok"
                   /\ b.used = 85 => status(b) = "warning"
                   /\ b.used = 97 => status(b) = "critical"

----------------------------------------------------------------------------
(* Properties of the message endpoints *)

\* the message POST /messages builds from a request
PostedMessage(id, req, now) ==
    with_tokens(MessageNew(id, req.agent_id, req.topic_id, Unwrap(RoleFromName(req.role)),
                           req.content, now),
                count(req.content))

(* C25: after POST /messages succeeds for (agent, topic), the stored       *)
(* message is the last element of read_all(agent, topic) with tokens equal *)
(* to the token counter's count of its content, GET                        *)
(* /messages/<agent>/<topic>?limit=1 returns exactly that message, and GET *)
(* without limit returns all messages, oldest to newest.                   *)
C25_PostThenGet ==
    \A req \in MessageRequests, now \in MsgTimes :
        LET id == nextMsg + 1
            before == read_all(files, req.agent_id, req.topic_id)
            r == append_message(files, dirs, id, req, now)
            all == read_all(r.files, req.agent_id, req.topic_id)
            one == get_messages(r.files, req.agent_id, req.topic_id, Some(1))
            every == get_messages(r.files, req.agent_id, req.topic_id, None)
        IN  (nextMsg < MaxMsgs /\ r.status = 200 /\ before.ok) =>
              /\ all.ok
              /\ all.messages = before.messages \o <<PostedMessage(id, req, now)>>
              /\ all.messages[Len(all.messages)].tokens = count(req.content)
              /\ one.status = 200
              /\ one.body = <<MessageResponse(PostedMessage(id, req, now))>>
              /\ r.body = Some(one.body[1])
              /\ every.status = 200
              /\ every.body = MapSeq(before.messages, MessageResponse) \o one.body

\* a log that POST /messages has appended to after another record, read by GET with limit 1
C25_Witness ==
    \E p \in Pairs :
        /\ Len(appended[p]) >= 2
        /\ appended[p][Len(appended[p])].role = "User"
        /\ appended[p][Len(appended[p])].tokens = count("hello")
        /\ get_messages(files, p[1], p[2], Some(1)).body
               = <<MessageResponse(appended[p][Len(appended[p])])>>
        /\ Len(get_messages(files, p[1], p[2], None).body) >= 2

----------------------------------------------------------------------------
(* Properties of listing *)

\* a stored memory matches the filters of a list_memories call
MatchesFilters(m, scope, agent_id, topic_id, active_only) ==
    /\ IsSome(scope) => m.scope = Unwrap(scope)
    /\ IsSome(agent_id) => m.agent_id = agent_id
    /\ IsSome(topic_id) => m.topic_id = topic_id
    /\ active_only => m.active

(* C26: list_memories(scope?, agent_id?, topic_id?, active_only) returns   *)
(* exactly the stored memories that match every supplied filter and, when  *)
(* active_only is true, are active; it returns no other memory, and the    *)
(* result is ordered by created_at descending.                             *)
C26_ListExact ==
    \A scope \in Option(MemoryScopes), agent_id \in Option(MemAgents),
       topic_id \in Option(MemTopics), active_only \in BOOLEAN :
        LET ms == list_memories(sqlite, scope, agent_id, topic_id, active_only)
        IN  /\ \A k \in 1..Len(ms) : get_memory(sqlite, ms[k].id) = Some(ms[k])
            /\ \A j, k \in 1..Len(ms) : j /= k => ms[j].id /= ms[k].id
            /\ {ms[k].id : k \in 1..Len(ms)} =
                   {id \in DOMAIN sqlite :
                        MatchesFilters(Unwrap(get_memory(sqlite, id)), scope, agent_id,
                                       topic_id, active_only)}
            /\ \A k \in 1..(Len(ms) - 1) : ms[k].created_at >= ms[k + 1].created_at

\* two memories created at different times, the older one first in the table, one of them
\* deactivated: the full list is newest first and the active list leaves one out
C26_Witness ==
    /\ \E i, j \in DOMAIN sqlite :
           /\ i < j
           /\ sqlite[i].created_at.rfc3339 < sqlite[j].created_at.rfc3339
           /\ ~sqlite[i].active
    /\ Len(list_memories(sqlite, None, None, None, FALSE)) = 2
    /\ Len(list_memories(sqlite, None, None, None, TRUE)) = 1
    /\ list_memories(sqlite, None, None, None, FALSE)[1].created_at
           > list_memories(sqlite, None, None, None, FALSE)[2].created_at

\* scope query values outside the vocabulary
BadScopeTexts == {"Global", "everything"}

(* C27: GET /memories with a scope query value outside {global, agent,     *)
(* topic, personal} is rejected with a bad-input (400) status and returns  *)
(* no memories.                                                            *)
C27_ListRejectsBadScope ==
    \A scope_text \in BadScopeTexts, agent_id \in Option(MemAgents), active_only \in Option(BOOLEAN) :
        LET r == http_list_memories(sqlite, Some(scope_text), agent_id, None, active_only)
        IN  /\ r.status = 400
            /\ r.body = <<>>

----------------------------------------------------------------------------
(* Properties of export and import *)

\* messages with agent_id and topic_id replaced
Retargeted(ms, agent_id, topic_id) ==
    [k \in 1..Len(ms) |-> [ms[k] EXCEPT !.agent_id = agent_id, !.topic_id = topic_id]]

(* C28: import_topic(a, t, file) appends every record of the file to the   *)
(* log of (a, t) in file order with agent_id = a and topic_id = t and      *)
(* every other field unchanged, and returns their number; so export_topic  *)
(* of (a', t') followed by import_topic into an empty (a, t) makes         *)
(* read_all(a, t) equal to read_all(a', t') up to the two rewritten ids.   *)
C28_ImportAppendsAll ==
    /\ \A p \in Pairs :
           LET before == read_all(files, p[1], p[2])
               r == import_topic(files, dirs, p[1], p[2], outfile)
               after == read_all(r.files, p[1], p[2])
           IN  (IsSome(outfile) /\ before.ok /\ r.ok) =>
                 /\ after.ok
                 /\ after.messages = before.messages
                        \o Retargeted(MapSeq(Unwrap(outfile), MessageFromJson), p[1], p[2])
                 /\ r.count = Len(Unwrap(outfile))
    /\ \A p, q \in Pairs :
           LET source == read_all(files, q[1], q[2])
               e == export_topic(files, q[1], q[2])
               r == import_topic(files, dirs, p[1], p[2], e.out)
               after == read_all(r.files, p[1], p[2])
           IN  (e.ok /\ r.ok /\ log_path(p[1], p[2]) \notin DOMAIN files) =>
                 /\ after.ok
                 /\ after.messages = Retargeted(source.messages, p[1], p[2])

\* a log filled by import_topic from the export of another log
C28_Witness ==
    \E p, q \in Pairs :
        /\ ~SameLog(p, q)
        /\ IsSome(outfile) /\ Unwrap(outfile) /= <<>>
        /\ read_all(files, q[1], q[2]).messages /= <<>>
        /\ read_all(files, p[1], p[2]).messages
               = Retargeted(read_all(files, q[1], q[2]).messages, p[1], p[2])

----------------------------------------------------------------------------
(* retrieval.rs: detect_correction and suggest_memory_from_correction.  A  *)
(* text is a sequence of words and single spaces; a pattern matches where  *)
(* its words and spaces occur in a row (a match that starts or ends inside *)
(* a word is not followed).                                                *)

\* words joined by single spaces
RECURSIVE JoinWords(_)
JoinWords(ws) ==
    IF ws = <<>> THEN <<>>
    ELSE IF Len(ws) = 1 THEN ws
    ELSE <<Head(ws), " ">> \o JoinWords(Tail(ws))

\* str::to_lowercase
LowerWord(w) ==
    CASE w = "No," -> "no,"
      [] w = "Always" -> "always"
      [] OTHER -> w

to_lowercase(text) == [k \in 1..Len(text) |-> LowerWord(text[k])]

\* str::starts_with
starts_with(text, pattern) == IsPrefix(pattern, text)

\* str::contains
contains(text, pattern) ==
    \E i \in 1..(Len(text) - Len(pattern) + 1) : SubSeq(text, i, i + Len(pattern) - 1) = pattern

\* correction_indicators of detect_correction
correction_indicators ==
    <<<<"no,">>, <<"no", " ", "that's">>, <<"that's", " ", "wrong">>, <<"that's", " ", "not">>,
      <<"actually,">>, <<"actually", " ">>, <<"incorrect">>, <<"not", " ", "quite">>,
      <<"you're", " ", "wrong">>, <<"wrong,">>, <<"nope,">>, <<"i", " ", "meant">>,
      <<"what", " ", "i", " ", "meant">>, <<"let", " ", "me", " ", "clarify">>,
      <<"to", " ", "clarify">>, <<"correction:">>,
      <<"i", " ", "should", " ", "have", " ", "said">>, <<"remember", " ", "that">>,
      <<"don't", " ", "forget">>, <<"always", " ">>, <<"never", " ">>,
      <<"make", " ", "sure", " ", "to">>, <<"please", " ", "remember">>>>

\* detect_correction: Some(description) when an indicator starts the lowercased message or
\* follows a space in it
detect_correction(user_message, assistant_message) ==
    LET user_lower == to_lowercase(user_message)
    IN  IF \E k \in 1..Len(correction_indicators) :
               \/ starts_with(user_lower, correction_indicators[k])
               \/ contains(user_lower, <<" ">> \o correction_indicators[k])
        THEN Some([corrected |-> user_message,
                   context |-> SubSeq(assistant_message, 1, Min2(200, Len(assistant_message)))])
        ELSE None

\* correction_patterns of suggest_memory_from_correction, with the MemoryType of each
correction_patterns ==
    <<<< <<"always", " ">>, "Preference" >>,
      << <<"never", " ">>, "Constraint" >>,
      << <<"remember", " ">>, "Fact" >>,
      << <<"don't", " ", "forget">>, "Fact" >>,
      << <<"i", " ", "prefer">>, "Preference" >>,
      << <<"i", " ", "like">>, "Preference" >>,
      << <<"i", " ", "don't", " ", "like">>, "Preference" >>,
      << <<"make", " ", "sure">>, "Workflow" >>,
      << <<"when", " ", "you">>, "Workflow" >> >>

\* suggest_memory_from_correction: the first pattern the lowercased message contains gives
\* Memory::for_agent(agent_id, its type, user_message); None when there is none
suggest_memory_from_correction(id, user_message, agent_id, now) ==
    LET user_lower == to_lowercase(user_message)
        hits == {k \in 1..Len(correction_patterns) : contains(user_lower, correction_patterns[k][1])}
    IN  IF hits = {} THEN None
        ELSE Some(MemoryForAgent(id, agent_id, correction_patterns[SetMin(hits)][2],
                                 user_message, now))

\* the user messages looked at here: up to MaxWords words
MaxWords == 3
ChatWords == {"No,", "Always", "never", "remember", "tabs"}
UserMessages ==
    {JoinWords(ws) : ws \in UNION {[1..n -> ChatWords] : n \in 1..MaxWords}}

\* a caller looks at a user message: detect_correction, then suggest_memory_from_correction
LookForCorrection(user_message, agent_id, now) ==
    /\ nextMem < MaxMem
    /\ LET s == suggest_memory_from_correction(nextMem + 1, user_message, agent_id, now)
       IN  /\ turn' = Some([user_message |-> user_message, agent_id |-> agent_id,
                            detected |-> detect_correction(user_message, <<"ok">>),
                            suggested |-> s])
           /\ nextMem' = IF IsSome(s) THEN nextMem + 1 ELSE nextMem
    /\ UNCHANGED <<sqlite, vector, deleted, logVars, lockVars, budgetVars, taskVars, gatewayVars>>

CorrectionNext ==
    \E user_message \in UserMessages, agent_id \in MemAgents :
        LookForCorrection(user_message, agent_id, MaxTime)

\* user messages looked at for corrections
SpecCorrection == Init /\ [][CorrectionNext]_vars

\* the memory type the table gives for a message
TableType(user_lower) ==
    IF contains(user_lower, <<"always">>) THEN "Preference"
    ELSE IF contains(user_lower, <<"never">>) THEN "Constraint"
    ELSE IF contains(user_lower, <<"remember">>) THEN "Fact"
    ELSE IF contains(user_lower, <<"make", " ", "sure">>)
              \/ contains(user_lower, <<"when", " ", "you">>) THEN "Workflow"
    ELSE "Correction"

(* C29: whenever a user message matches one of the correction lead-in      *)
(* markers (detect_correction returns a value), suggest_memory_from_       *)
(* correction returns a suggested Memory whose content is the user         *)
(* message, whose scope is agent with the supplied agent-id, and whose     *)
(* type follows the fixed table (always -> preference, never ->            *)
(* constraint, remember -> fact, make sure / when you -> workflow,         *)
(* otherwise correction); neither helper writes to a store.                *)
C29_SuggestFollowsDetect ==
    /\ sqlite = [i \in {} |-> <<>>] /\ vector = <<>>
    /\ (IsSome(turn) /\ IsSome(Unwrap(turn).detected)) =>
           LET t == Unwrap(turn)
           IN  /\ IsSome(t.suggested)
               /\ Unwrap(t.suggested).content = t.user_message
               /\ Unwrap(t.suggested).scope = "Agent"
               /\ Unwrap(t.suggested).agent_id = Some(t.agent_id)
               /\ Unwrap(t.suggested).topic_id = None
               /\ Unwrap(t.suggested).memory_type = TableType(to_lowercase(t.user_message))

----------------------------------------------------------------------------
(* The order of the two stores in save_memory and delete_memory *)

\* MemoryStore::save_memory, as the states of the two stores after each of its steps: a
\* failure or a crash after a step leaves the stores in that state
save_memory_steps(db, v, m, deleted_ok, added_ok) ==
    LET db2 == sqlite_save_memory(db, m)
    IN  <<[sqlite |-> db2, vector |-> v]>>
            \o (IF m.embedding = None THEN <<>>
                ELSE <<[sqlite |-> db2,
                        vector |-> vector_upsert_memory(v, m, deleted_ok, added_ok).vector]>>)

\* a delete_memory that removes the vector row first
delete_memory_steps_vector_first(db, v, id, deleted_ok) ==
    LET v2 == vector_delete_memory(v, id, deleted_ok).vector
    IN  <<[sqlite |-> db, vector |-> v2],
          [sqlite |-> sqlite_delete_memory(db, id), vector |-> v2]>>

\* MemoryStore::delete_memory, as the states of the two stores after each of its steps
delete_memory_steps(db, v, id, deleted_ok) ==
    LET db2 == sqlite_delete_memory(db, id)
    IN  <<[sqlite |-> db2, vector |-> v],
          [sqlite |-> db2, vector |-> vector_delete_memory(v, id, deleted_ok).vector]>>

(* C30: save_memory writes the MetaStore row before the VectorIndex row    *)
(* and delete_memory removes the MetaStore row before the VectorIndex row: *)
(* a failure or crash between the two steps of delete_memory leaves at     *)
(* worst a VectorIndex row without a MetaStore row, never a MetaStore row  *)
(* whose vector row was deleted, and a failure between the two steps of    *)
(* save_memory leaves at worst a MetaStore row without a VectorIndex row.  *)
C30_MetaStoreFirst ==
    /\ \A id \in MemIds, deleted_ok \in BOOLEAN :
           LET steps == delete_memory_steps(sqlite, vector, id, deleted_ok)
               done == delete_memory(sqlite, vector, id, deleted_ok)
           IN  Nameable(id) =>
                 /\ steps[Len(steps)] = [sqlite |-> done.sqlite, vector |-> done.vector]
                 /\ \A k \in 1..Len(steps) :
                        /\ id \notin DOMAIN steps[k].sqlite
                        /\ \A j \in DOMAIN steps[k].sqlite :
                               HasVectorRow(vector, j) => HasVectorRow(steps[k].vector, j)
    /\ \A m \in NewMemories \cup ChangedMemories(sqlite), deleted_ok, added_ok \in BOOLEAN :
           LET steps == save_memory_steps(sqlite, vector, m, deleted_ok, added_ok)
               done == save_memory(sqlite, vector, m, deleted_ok, added_ok)
           IN  (nextMem < MaxMem \/ m.id \in DOMAIN sqlite) =>
                 /\ steps[Len(steps)] = [sqlite |-> done.sqlite, vector |-> done.vector]
                 /\ \A k \in 1..Len(steps) :
                        /\ get_memory(steps[k].sqlite, m.id)
                               = Some([m EXCEPT !.embedding = None])
                        /\ \A j \in MemIds :
                               (HasVectorRow(steps[k].vector, j) /\ ~HasVectorRow(vector, j))
                                   => j \in DOMAIN steps[k].sqlite

\* a delete whose vector step failed has left a vector row without a sqlite row, and a save
\* whose vector step failed has left a sqlite row without a vector row
C30_Witness ==
    /\ \E k \in 1..Len(vector) : vector[k].id \notin DOMAIN sqlite
    /\ \E id \in DOMAIN sqlite : ~HasVectorRow(vector, id)

----------------------------------------------------------------------------
(* Repeated saves *)

\* the Memory values a caller passes when it repeats a save: a new memory, or a stored one
\* as get_memory returns it, each with the embedding of its content
RepeatedMemories(db) ==
    {with_embedding(MemoryGlobal(nextMem + 1, "Correction", "kebab", MaxTime), embed("kebab"))}
        \cup {with_embedding(Unwrap(get_memory(db, id)), embed(Unwrap(get_memory(db, id)).content)) :
                  id \in DOMAIN db}

\* the vector store's rows of an id
VectorRows(v, id) == SelectSeq(v, LAMBDA row : HasId(row, id))

(* C31: save_memory is idempotent per id: a save_memory repeated with the  *)
(* same memory (same id and embedding), also as a retry after the vector   *)
(* upsert failed, that returns success leaves one sqlite row and one       *)
(* vector row of the id, the state a single successful save leaves.        *)
C31_SaveIdempotent ==
    \A m \in RepeatedMemories(sqlite), o1 \in Outcomes, o2 \in Outcomes :
        LET once == save_memory(sqlite, vector, m, TRUE, TRUE)
            first == save_memory(sqlite, vector, m, o1[2], o1[3])
            again == save_memory(first.sqlite, first.vector, m, o2[2], o2[3])
        IN  again.ok =>
                /\ IsSome(get_memory(again.sqlite, m.id))
                /\ Len(VectorRows(again.vector, m.id)) = 1
                /\ again.sqlite = once.sqlite
                /\ again.vector = once.vector

----------------------------------------------------------------------------
(* Upserts of the vector store, step by step.  upsert_memory awaits the    *)
(* delete and then the add; VectorStorage is shared by reference, so other *)
(* calls run between the two.                                              *)

MaxUpserts == 2
MaxVectorRows == 4

\* upsert_memory up to and including `let _ = self.delete_memory(memory.id).await`
upsert_delete_step(v, m, deleted_ok) ==
    IF m.embedding = None THEN [ok |-> FALSE, vector |-> v]
    ELSE IF Unwrap(m.embedding).len /= embedding_dimensions THEN [ok |-> FALSE, vector |-> v]
    ELSE [ok |-> TRUE, vector |-> vector_delete_memory(v, m.id, deleted_ok).vector]

\* the rest of upsert_memory: the one-row batch and table.add
upsert_add_step(v, m, added_ok) ==
    IF ~added_ok THEN [ok |-> FALSE, vector |-> v]
    ELSE [ok |-> TRUE, vector |-> Append(v, MemoryToVectorRow(m))]

\* the memories passed to upsert_memory
UpsertMemories ==
    {with_embedding(MemoryGlobal(id, "Correction", content, 0), e) :
         id \in 1..MaxMem, content \in {"kebab", "snake"}, e \in {embed("kebab"), ShortVec}}

\* a caller enters upsert_memory and runs it through the delete
UpsertDelete(m, deleted_ok) ==
    /\ Len(upserting) < MaxUpserts
    /\ LET r == upsert_delete_step(vector, m, deleted_ok)
       IN  /\ vector' = r.vector
           /\ upserting' = IF r.ok THEN Append(upserting, m) ELSE upserting
    /\ UNCHANGED <<sqlite, nextMem, deleted, handles, logVars, lockVars, budgetVars, chatVars,
                   gatewayVars>>

\* a caller past the delete runs table.add and returns
UpsertAdd(k, added_ok) ==
    /\ k \in 1..Len(upserting)
    /\ added_ok => Len(vector) < MaxVectorRows
    /\ vector' = upsert_add_step(vector, upserting[k], added_ok).vector
    /\ upserting' = SubSeq(upserting, 1, k - 1) \o SubSeq(upserting, k + 1, Len(upserting))
    /\ UNCHANGED <<sqlite, nextMem, deleted, handles, logVars, lockVars, budgetVars, chatVars,
                   gatewayVars>>

\* VectorStorage::delete_memory
VectorDelete(id, deleted_ok) ==
    /\ vector' = vector_delete_memory(vector, id, deleted_ok).vector
    /\ UNCHANGED <<sqlite, nextMem, deleted, taskVars, logVars, lockVars, budgetVars, chatVars,
                   gatewayVars>>

UpsertNext ==
    \/ \E m \in UpsertMemories, deleted_ok \in BOOLEAN : UpsertDelete(m, deleted_ok)
    \/ \E k \in 1..MaxUpserts, added_ok \in BOOLEAN : UpsertAdd(k, added_ok)
    \/ \E id \in 1..MaxMem, deleted_ok \in BOOLEAN : VectorDelete(id, deleted_ok)

\* the vector store under upserts and deletes of concurrent callers
SpecUpsert == Init /\ [][UpsertNext]_vars

\* the two steps, run with nothing between them, are upsert_memory
UpsertStepsCompose ==
    \A m \in UpsertMemories, deleted_ok \in BOOLEAN, added_ok \in BOOLEAN :
        LET d == upsert_delete_step(vector, m, deleted_ok)
            a == upsert_add_step(d.vector, m, added_ok)
            up == vector_upsert_memory(vector, m, deleted_ok, added_ok)
        IN  /\ up.ok = (d.ok /\ a.ok)
            /\ up.vector = IF d.ok THEN a.vector ELSE d.vector

(* C32: the id is a unique key of the vector store: after any sequence of  *)
(* upserts and deletes, with upserts whose internal delete fails (the      *)
(* error is ignored) and upserts of one id that interleave, the table      *)
(* holds at most one row per id.                                           *)
C32_UniqueIds ==
    \A id \in 1..MaxMem : Len(VectorRows(vector, id)) <= 1

----------------------------------------------------------------------------
(* Offsets of appends.  JsonlStorage::append is synchronous code run by    *)
(* handlers on the threads of the runtime (#[tokio::main]); between its    *)
(* seek and its writes the appends of other handlers run.                  *)

\* append up to and including `file.seek(SeekFrom::End(0))`: the file exists from here on
append_seek(f, d, message) ==
    LET d2 == ensure_dir(d, message.agent_id)
        path == log_path(message.agent_id, message.topic_id)
        old == FileContent(f, path)
    IN  IF Parent(path) \notin d2
        THEN [ok |-> FALSE, files |-> f, dirs |-> d2, offset |-> 0]
        ELSE [ok |-> TRUE, files |-> WriteFile(f, path, old), dirs |-> d2, offset |-> Len(old)]

\* the first write of writeln!: the JSON text, at the end of the file as it is then (O_APPEND)
append_text(f, path, message) ==
    WriteFile(f, path, FileContent(f, path) \o <<JsonChunk(MessageToJson(message))>>)

\* read_at_offset: seek(Start(offset)), the first line from there, serde_json::from_str
read_at_offset(f, agent_id, topic_id, offset) ==
    LET path == log_path(agent_id, topic_id)
        c == FileContent(f, path)
        rest == Lines(SubSeq(c, offset + 1, Len(c)))
    IN  IF path \notin DOMAIN f THEN [ok |-> FALSE, error |-> Some("io"), message |-> None]
        ELSE IF rest = <<>> THEN [ok |-> FALSE, error |-> Some("not_found"), message |-> None]
        ELSE IF ~LineParses(rest[1]) THEN [ok |-> FALSE, error |-> Some("json"), message |-> None]
        ELSE [ok |-> TRUE, error |-> None, message |-> Some(ParseLine(rest[1]))]

\* a handler enters append and runs it through the seek
SeekEnd(agent_id, topic_id, metadata, now) ==
    /\ nextMsg < MaxMsgs
    /\ LET id == nextMsg + 1
           m0 == with_tokens(MessageNew(id, agent_id, topic_id, "Tool", "hello", now), 7)
           message == IF IsSome(metadata) THEN with_metadata(m0, Unwrap(metadata)) ELSE m0
           r == append_seek(files, dirs, message)
       IN  /\ files' = r.files
           /\ dirs' = r.dirs
           /\ nextMsg' = id
           /\ handles' = IF r.ok
                         THEN [i \in DOMAIN handles \cup {id} |->
                                   IF i = id
                                   THEN [message |-> message, offset |-> r.offset, stage |-> "sought"]
                                   ELSE handles[i]]
                         ELSE handles
    /\ UNCHANGED <<outfile, appended, upserting, memVars, lockVars, budgetVars, chatVars,
                   gatewayVars>>

\* the handler writes its JSON text
WriteText(id) ==
    /\ id \in DOMAIN handles
    /\ handles[id].stage = "sought"
    /\ LET message == handles[id].message
       IN  /\ files' = append_text(files, log_path(message.agent_id, message.topic_id), message)
           /\ appended' = [appended EXCEPT ![<<message.agent_id, message.topic_id>>] =
                               Append(@, message)]
    /\ handles' = [handles EXCEPT ![id].stage = "text"]
    /\ UNCHANGED <<dirs, outfile, nextMsg, upserting, memVars, lockVars, budgetVars, chatVars,
                   gatewayVars>>

\* the handler writes its newline and returns its offset
WriteLineEnd(id) ==
    /\ id \in DOMAIN handles
    /\ handles[id].stage = "text"
    /\ LET message == handles[id].message
       IN  files' = append_newline(files, log_path(message.agent_id, message.topic_id))
    /\ handles' = [handles EXCEPT ![id].stage = "returned"]
    /\ UNCHANGED <<dirs, outfile, nextMsg, appended, upserting, memVars, lockVars, budgetVars,
                   chatVars, gatewayVars>>

OffsetsNext ==
    \/ \E p \in Pairs, metadata \in MetadataInputs, now \in MsgTimes :
           SeekEnd(p[1], p[2], metadata, now)
    \/ \E id \in 1..MaxMsgs : WriteText(id)
    \/ \E id \in 1..MaxMsgs : WriteLineEnd(id)

\* appends of concurrent handlers, from the seek to the return
SpecOffsets == Init /\ [][OffsetsNext]_vars

\* the three steps, run with nothing between them, are append
AppendStepsCompose ==
    \A p \in Pairs, metadata \in MetadataInputs :
        LET m0 == with_tokens(MessageNew(nextMsg + 1, p[1], p[2], "Tool", "hello", MaxTime), 7)
            message == IF IsSome(metadata) THEN with_metadata(m0, Unwrap(metadata)) ELSE m0
            s == append_seek(files, dirs, message)
            whole == append(files, dirs, message)
        IN  /\ whole.ok = s.ok
            /\ whole.dirs = s.dirs
            /\ whole.offset = s.offset
            /\ s.ok => whole.files =
                           append_newline(append_text(s.files, log_path(p[1], p[2]), message),
                                          log_path(p[1], p[2]))

(* C33: for every append, also one that interleaves with other appends to  *)
(* the same topic, the returned offset is the position where the record's  *)
(* own line starts: read_at_offset(agent, topic, offset) returns exactly   *)
(* the record that append wrote.                                           *)
C33_OffsetFindsRecord ==
    \A id \in DOMAIN handles :
        handles[id].stage = "returned" =>
            LET message == handles[id].message
                r == read_at_offset(files, message.agent_id, message.topic_id, handles[id].offset)
            IN  /\ r.ok
                /\ r.message = Some(MessageFromJson(MessageToJson(message)))

----------------------------------------------------------------------------
(* The columns both stores hold *)

\* the vector row and the sqlite row of an id agree on the columns they share
SameColumns(row, stored) ==
    /\ row.content = stored.content
    /\ row.scope = stored.scope
    /\ row.memory_type = stored.memory_type
    /\ row.agent_id = stored.agent_id
    /\ row.topic_id = stored.topic_id

\* every id that has a row in both stores has the same shared columns in both
NoDrift(db, v) ==
    \A k \in 1..Len(v) : v[k].id \in DOMAIN db => SameColumns(v[k], db[v[k].id])

\* a stored memory saved again with another scope, type and owner, and an embedding
RescopedMemories(db) ==
    {with_embedding([m EXCEPT !.embedding = None], embed("snake")) : m \in ResavedMemories(db)}

(* C34: after any sequence of save_memory and delete_memory calls (saves   *)
(* with or without an embedding, re-saves of a stored id with changed      *)
(* fields), every id present in both stores has the same content, scope,   *)
(* memory_type, agent_id and topic_id in its vector row as in its sqlite   *)
(* row.                                                                    *)
C34_NoColumnDrift ==
    /\ NoDrift(sqlite, vector)
    /\ \A m \in ChangedMemories(sqlite) \cup ResavedMemories(sqlite) \cup RescopedMemories(sqlite),
          o \in Outcomes :
           LET r == save_memory(sqlite, vector, m, o[2], o[3])
           IN  NoDrift(r.sqlite, r.vector)

----------------------------------------------------------------------------
(* The scope of a created memory *)

(* C35: create_memory stores and returns the memory with the scope named   *)
(* in the request, for each of global, agent, topic and personal: the      *)
(* create response and get_memory report that scope, and list_memories     *)
(* with that scope as filter lists the memory.                             *)
C35_CreateKeepsScope ==
    \A req \in CreateRequests, now \in Times, o \in Outcomes :
        LET id == nextMem + 1
            r == create_memory(sqlite, vector, id, req, now, o[1], o[2], o[3])
            got == http_get_memory(r.sqlite, IdText(id))
            listed == http_list_memories(r.sqlite, Some(req.scope), None, None, None)
        IN  r.status = 200 =>
                /\ Unwrap(r.body).scope = req.scope
                /\ got.status = 200
                /\ Unwrap(got.body).scope = req.scope
                /\ \E k \in 1..Len(listed.body) : listed.body[k].id = Unwrap(r.body).id

----------------------------------------------------------------------------
(* Isolation of topics *)

(* C36: append (POST /messages), import_topic and delete_topic on (a, t)   *)
(* change only the log of (a, t): for every other pair (a', t') of agent   *)
(* and topic strings the service accepts, read_all(a', t') is the same     *)
(* before and after.                                                       *)
C36_TopicIsolation ==
    \A p \in Pairs, q \in Pairs :
        p /= q =>
            LET before == read_all(files, q[1], q[2])
            IN  /\ \A req \in MessageRequests :
                       (req.agent_id = p[1] /\ req.topic_id = p[2]) =>
                           read_all(append_message(files, dirs, nextMsg + 1, req, MaxTime).files,
                                    q[1], q[2]) = before
                /\ read_all(import_topic(files, dirs, p[1], p[2], outfile).files, q[1], q[2])
                       = before
                /\ read_all(delete_topic(files, p[1], p[2]), q[1], q[2]) = before

----------------------------------------------------------------------------
(* The gateway connection of the desktop shell: the commands, the task of  *)
(* each connection one select branch at a time, and the gateway            *)

\* the results the sends of a step carry to one receiver
Results(sends, to) ==
    LET mine == SelectSeq(sends, LAMBDA s : s.to = to)
    IN  [k \in 1..Len(mine) |-> mine[k].result]

\* a step of the task of connection c; leaving the loop runs the task to its return
TaskStep(c, r) ==
    LET fin == IF r.break THEN task_end(r.task) ELSE [task |-> r.task, sends |-> <<>>]
        sends == r.sends \o fin.sends
    IN  /\ conns' = [conns EXCEPT ![c] =
                         [fin.task EXCEPT !.returned = @ \o Results(sends, ReadyTx)]]
        /\ calls' = [k \in DOMAIN calls |->
                         [calls[k] EXCEPT !.replies = @ \o Results(sends, k),
                                          !.stage = IF Results(sends, k) /= <<>>
                                                    THEN "returned" ELSE @]]
        /\ nextFrame' = IF r.wrote THEN nextFrame + 1 ELSE nextFrame
        /\ UNCHANGED <<gateway, logVars, memVars, lockVars, budgetVars, chatVars, taskVars>>

\* the front end invokes gateway_connect; it has made fewer than `limit` connections so far
GatewayConnect(limit) ==
    /\ \E c \in 1..limit : conns[c].phase = "none"
    /\ LET c == SetMin({i \in 1..limit : conns[i].phase = "none"})
           r == gateway_connect(gateway, conns, c)
       IN  /\ gateway' = r.gateway
           /\ conns' = r.conns
    /\ UNCHANGED <<calls, nextFrame, logVars, memVars, lockVars, budgetVars, chatVars, taskVars>>

\* the front end invokes gateway_disconnect
GatewayDisconnect ==
    /\ LET r == gateway_disconnect(gateway, conns)
       IN  /\ gateway' = r.gateway
           /\ conns' = r.conns
    /\ UNCHANGED <<calls, nextFrame, logVars, memVars, lockVars, budgetVars, chatVars, taskVars>>

\* gateway_request up to the clone of the handle
RequestBegin(method) ==
    /\ \E k \in 1..MaxCalls : calls[k].stage = "idle"
    /\ LET k == SetMin({i \in 1..MaxCalls : calls[i].stage = "idle"})
       IN  calls' = IF gateway = None THEN calls
                    ELSE [calls EXCEPT ![k] = [NoCall EXCEPT !.conn = Unwrap(gateway),
                                                             !.method = method,
                                                             !.stage = "handle"]]
    /\ UNCHANGED <<gateway, conns, nextFrame, logVars, memVars, lockVars, budgetVars, chatVars, taskVars>>

\* gateway_request: handle.tx.send(GatewayCommand::Request {..}), then it awaits the response
RequestSend(k) ==
    /\ calls[k].stage = "handle"
    /\ IF is_closed(conns[calls[k].conn])
       THEN /\ calls' = [calls EXCEPT ![k].stage = "returned",
                                      ![k].replies = <<Err("gateway request channel closed")>>]
            /\ conns' = conns
       ELSE /\ calls' = [calls EXCEPT ![k].stage = "sent", ![k].accepted = TRUE]
            /\ conns' = [conns EXCEPT ![calls[k].conn].rx =
                             Append(@, RequestCommand(calls[k].method, k))]
    /\ UNCHANGED <<gateway, nextFrame, logVars, memVars, lockVars, budgetVars, chatVars, taskVars>>

\* the task parses the url and connects
ConnectAsync(c, outcome) ==
    /\ conns[c].phase = "spawned"
    /\ LET r == connect_async(conns[c], outcome)
       IN  TaskStep(c, Step(r.task, r.sends, FALSE, FALSE))

\* select: `_ = &mut connect_timer, if !connect_sent`
ConnectTimer(c) ==
    /\ conns[c].phase = "open"
    /\ ~conns[c].connect_sent
    /\ TaskStep(c, connect_now(conns[c], nextFrame + 1))

\* select: `Some(cmd) = rx.recv()`
ReceiveCommand(c) ==
    /\ conns[c].phase = "open"
    /\ conns[c].rx /= <<>>
    /\ TaskStep(c, on_command([conns[c] EXCEPT !.rx = Tail(@)], nextFrame + 1,
                              Head(conns[c].rx)))

\* select: `Some(msg) = read.next()`
ReadSocket(c) ==
    /\ conns[c].phase = "open"
    /\ conns[c].inbox /= <<>>
    /\ TaskStep(c, on_read([conns[c] EXCEPT !.inbox = Tail(@)], nextFrame + 1,
                           Head(conns[c].inbox)))

\* the gateway answers a request frame: ok with a payload, or an error with or without message
GatewayAnswers(c, id, ok, error) ==
    /\ conns[c].phase = "open"
    /\ conns[c].peer = "up"
    /\ \E f \in conns[c].written : f.id = id
    /\ \A f \in conns[c].answered : f.id /= id
    /\ conns' = [conns EXCEPT ![c].inbox = Append(@, ResFrame(id, ok, error)),
                              ![c].answered = @ \cup {ResFrame(id, ok, error)}]
    /\ UNCHANGED <<gateway, calls, nextFrame, logVars, memVars, lockVars, budgetVars, chatVars, taskVars>>

\* the gateway sends its connect.challenge event
GatewayChallenge(c) ==
    /\ conns[c].phase = "open"
    /\ conns[c].peer = "up"
    /\ ~conns[c].challenged
    /\ conns' = [conns EXCEPT ![c].inbox = Append(@, EventFrame("connect.challenge")),
                              ![c].challenged = TRUE]
    /\ UNCHANGED <<gateway, calls, nextFrame, logVars, memVars, lockVars, budgetVars, chatVars, taskVars>>

\* the gateway sends a close frame
GatewayCloses(c) ==
    /\ conns[c].phase = "open"
    /\ conns[c].peer = "up"
    /\ conns' = [conns EXCEPT ![c].inbox = Append(@, CloseFrame), ![c].peer = "closed"]
    /\ UNCHANGED <<gateway, calls, nextFrame, logVars, memVars, lockVars, budgetVars, chatVars, taskVars>>

\* the socket breaks: writes fail from here on and the read side yields an error
SocketBreaks(c) ==
    /\ conns[c].phase = "open"
    /\ conns[c].peer = "up"
    /\ conns' = [conns EXCEPT ![c].inbox = Append(@, ReadError), ![c].peer = "broken"]
    /\ UNCHANGED <<gateway, calls, nextFrame, logVars, memVars, lockVars, budgetVars, chatVars, taskVars>>

Methods == {"connect", "chat.send"}

ConnectOutcomes == {"ok", "invalid url", "connect failed"}

Answers == {<<TRUE, None>>, <<FALSE, None>>, <<FALSE, Some("denied")>>}

TaskNext ==
    \/ \E c \in 1..MaxConns, outcome \in ConnectOutcomes : ConnectAsync(c, outcome)
    \/ \E c \in 1..MaxConns : ConnectTimer(c)
    \/ \E c \in 1..MaxConns : ReceiveCommand(c)
    \/ \E c \in 1..MaxConns : ReadSocket(c)

\* one connection with its gateway_request calls
RequestsNext ==
    \/ GatewayConnect(1)
    \/ GatewayDisconnect
    \/ \E method \in Methods : RequestBegin(method)
    \/ \E k \in 1..MaxCalls : RequestSend(k)
    \/ TaskNext
    \/ \E id \in 1..(1 + MaxCalls), a \in Answers : GatewayAnswers(1, id, a[1], a[2])
    \/ GatewayChallenge(1)
    \/ GatewayCloses(1)
    \/ SocketBreaks(1)

SpecRequests == Init /\ [][RequestsNext]_vars

\* the connections of one application state: connect and disconnect commands, the tasks,
\* gateways that close
ConnectionsNext ==
    \/ GatewayConnect(MaxConns)
    \/ GatewayDisconnect
    \/ TaskNext
    \/ \E c \in 1..MaxConns : GatewayChallenge(c)
    \/ \E c \in 1..MaxConns : GatewayCloses(c)

SpecConnections == Init /\ [][ConnectionsNext]_vars

\* the connections whose task is running
Live == {c \in 1..MaxConns : conns[c].phase \in {"spawned", "open"}}

(* C38: at most one gateway connection task is running per application     *)
(* state at any time, for any interleaving of gateway_connect and          *)
(* gateway_disconnect calls: gateway_connect fails with "gateway already   *)
(* connected" while a previous connection is still live.                   *)
C38_OneConnection ==
    /\ Cardinality(Live) <= 1
    /\ \A c \in 1..MaxConns :
           Live /= {} =>
               LET r == gateway_connect(gateway, conns, c)
               IN  ~r.ok /\ r.error = Some("gateway already connected")

\* one connection: the scheduler runs the task (each ready select branch is taken in the
\* end, connect_async returns) and every gateway_request call goes on to its send
SpecRequestsFair ==
    /\ SpecRequests
    /\ WF_vars(\E outcome \in ConnectOutcomes : ConnectAsync(1, outcome))
    /\ WF_vars(ConnectTimer(1))
    /\ WF_vars(ReceiveCommand(1))
    /\ WF_vars(ReadSocket(1))
    /\ \A k \in 1..MaxCalls : WF_vars(RequestSend(k))

\* the result handle_incoming makes of a res frame
ResultOf(frame) ==
    IF frame.ok THEN Ok(frame.payload)
    ELSE Err(IF IsSome(frame.error) THEN Unwrap(frame.error) ELSE "request failed")

\* the result is that of the gateway's res frame for the request frame written for the sender
MatchesRes(t, sender, result) ==
    \E f \in t.written, a \in t.answered :
        f.respond_to = Some(sender) /\ a.id = f.id /\ result = ResultOf(a)

\* the outcomes of a gateway_request call that the task's end or a failed write explains
EndedOrFailed(t, result) ==
    \/ result = Err("send failed") /\ t.peer = "broken"
    \/ result \in {Err("gateway disconnected"), Err("gateway response dropped")}
           /\ t.phase = "ended"

\* a "connect" request refused because the handshake request is out already
RefusedConnect(call, t, result) ==
    /\ result = Err("gateway connect already in progress")
    /\ call.method = "connect"
    /\ \E f \in t.written : f.method = "connect"

\* the task of the call's connection has something queued that ends the call
Settled(k) ==
    LET t == conns[calls[k].conn]
    IN  /\ calls[k].accepted
        /\ \/ \E i \in 1..Len(t.rx) : t.rx[i].kind = "Disconnect"
           \/ \E i \in 1..Len(t.inbox) : t.inbox[i].type \in {"close", "error"}
           \/ \E i \in 1..Len(t.inbox) :
                  /\ t.inbox[i].type = "res"
                  /\ t.inbox[i].id \in DOMAIN t.pending
                  /\ t.pending[t.inbox[i].id] = k

\* every accepted call has at most one reply, exactly one once its task has ended
RepliedOnce ==
    \A k \in 1..MaxCalls :
        calls[k].accepted =>
            /\ Len(calls[k].replies) <= 1
            /\ conns[calls[k].conn].phase = "ended" => Len(calls[k].replies) = 1
            /\ calls[k].stage = "returned" <=> Len(calls[k].replies) = 1

ConnectFrames(t) == {f \in t.written : f.method = "connect"}

\* the errors gateway_connect returns when the connection ends before the handshake does
EndedFirst(t, result) ==
    \/ result \in {Err("invalid gateway url"), Err("failed to connect"),
                   Err("gateway disconnected"), Err("gateway disconnected before handshake")}
           /\ t.phase = "ended"
    \/ result = Err("send failed") /\ t.peer = "broken"

\* the task has something queued that ends the handshake
HandshakeSettled(t) ==
    \/ \E i \in 1..Len(t.rx) : t.rx[i].kind = "Disconnect"
    \/ \E i \in 1..Len(t.inbox) : t.inbox[i].type \in {"close", "error"}
    \/ \E i \in 1..Len(t.inbox) :
           t.inbox[i].type = "res" /\ t.connect_request_id = Some(t.inbox[i].id)

(* C39: within one gateway connection the "connect" handshake request is   *)
(* sent at most once, whichever of the timer, a connect.challenge event or *)
(* an explicit "connect" request comes first (a later explicit "connect"   *)
(* is answered with an error), and gateway_connect returns exactly once,   *)
(* with the outcome of the response to that request or with an error if    *)
(* the connection ends first; it does return once that response, a         *)
(* Disconnect, a close frame or a read error is queued for the task.       *)
C39_HandshakeOnce ==
    /\ [](\A c \in 1..MaxConns :
              LET t == conns[c]
              IN  /\ Cardinality(ConnectFrames(t)) <= 1
                  /\ Len(t.returned) <= 1
                  /\ t.phase = "ended" => Len(t.returned) = 1
                  /\ \A i \in 1..Len(t.returned) :
                         \/ \E f \in ConnectFrames(t), a \in t.answered :
                                a.id = f.id /\ t.returned[i] = ResultOf(a)
                         \/ EndedFirst(t, t.returned[i])
                  /\ \A k \in 1..MaxCalls :
                         (/\ calls[k].conn = c
                          /\ calls[k].accepted
                          /\ calls[k].method = "connect"
                          /\ calls[k].replies /= <<>>
                          /\ \E f \in ConnectFrames(t) : f.respond_to /= Some(k))
                             => \/ calls[k].replies
                                       = <<Err("gateway connect already in progress")>>
                                \/ EndedOrFailed(t, calls[k].replies[1]))
    /\ \A c \in 1..MaxConns :
           (conns[c].phase = "open" /\ HandshakeSettled(conns[c]))
               ~> (Len(conns[c].returned) = 1)

\* the challenge came first: the handshake request went out once, gateway_connect has
\* returned the payload of its response, and a later explicit "connect" was refused
C39_Witness ==
    \E c \in 1..MaxConns, k \in 1..MaxCalls :
        /\ conns[c].challenged
        /\ \E f \in ConnectFrames(conns[c]) : f.respond_to = Some(ReadyTx)
        /\ Len(conns[c].returned) = 1 /\ conns[c].returned[1].ok
        /\ calls[k].conn = c
        /\ calls[k].replies = <<Err("gateway connect already in progress")>>

====
